---- MODULE Spec2Model ----
(***************************************************************************)
(* Segment composition and face-trajectory synthesis of api-cortes.        *)
(*                                                                         *)
(* Numbers.  The Python code computes on floats.  The model computes on    *)
(* exact fixed-point integers:                                             *)
(*   - a time is a whole number of ticks, TicksPerSecond ticks a second;   *)
(*     one tick is a tenth of the last digit round(out_t, 4) keeps, so the *)
(*     rounding of the code is visible;                                    *)
(*   - a normalized position x_norm is a whole number of 1/XDen;           *)
(*   - speed, alpha and epsilon are fractions [num, den];                  *)
(*   - a raw position is None, the empty tuple, or <<x>>.                  *)
(* Each function has a specification of its own, whose initial states are  *)
(* its inputs; SpecAnalysis is the analysis of one job.                    *)
(***************************************************************************)
EXTENDS Integers, Sequences, FiniteSets, TLC

VARIABLES
    calls,          \* which functions have run on the inputs of this behaviour
    segments,       \* list[Segment]: the ordered source intervals
    fade_duration,  \* crossfade length, ticks
    speed,          \* playback speed, a fraction [num, den]
    segment_data,   \* per segment, the (source_time, x_norm) pairs
    offsets,        \* the placement offset _map_to_output_timeline used per segment
    keyframes,      \* the list[CropKeyframe] _map_to_output_timeline returned
    xfade,          \* the offset= fields _build_fade_filters emitted, one per transition
    positions,      \* list[float | None]: raw per-frame face positions
    alpha,          \* EMA weight, a fraction [num, den]
    max_speed,      \* velocity clamp, in 1/XDen
    smoothed,       \* the list _smooth_trajectory returned
    points,         \* list[tuple[float, float]] given to _rdp, each with its input index
    epsilon,        \* deviation tolerance, a fraction [num, den] of grid steps
    simplified,     \* the list _rdp returned
    pc,             \* where analyze_face_positions is: "idle", "start", "sampling", "done"
    available,      \* _AVAILABLE: mediapipe and numpy were imported
    source,         \* [w, h]: what _probe_video reports for the source video
    crop,           \* [w, h]: crop_w, crop_h
    sample_fps,     \* settings.face_tracking_sample_fps
    frames,         \* len(frames) of the segment sampled last
    total_frames,   \* frames extracted so far
    detected_frames,\* frames with a face so far
    result,         \* "pending", or what the call returned: "None" or "trajectory"
    raised,         \* None, or Some(step) for the step of _analyze_sync that raised
    reduced,        \* the keyframes after simplification, given to _build_crop_x_expr
    crop_x_expr,    \* the expression _build_crop_x_expr returned, as its parts
    frame,          \* an output frame: its time t, the input width iw and the crop x
    detections,     \* result.detections of the frame _detect_faces processed last
    stack,          \* the point lists of the _rdp calls that have not run yet
    rdp_calls,      \* how many _rdp calls have run
    last_call,      \* None, or the lengths of the list and the sublists of the last _rdp call
    max_retries,    \* settings.webhook_max_retries
    base_delay,     \* settings.webhook_retry_base_delay, seconds
    delivery,       \* where send_webhook is: "idle", "post", "sleep", "returned", "raised"
    attempt,        \* the loop variable of send_webhook
    posts,          \* the responses of the POSTs made, oldest first: a status or "error"
    delays          \* the delays slept, seconds, oldest first

vars == <<calls, segments, fade_duration, speed, segment_data, offsets,
          keyframes, xfade, positions, alpha, max_speed, smoothed,
          points, epsilon, simplified,
          pc, available, source, crop, sample_fps, frames, total_frames,
          detected_frames, result, raised,
          reduced, crop_x_expr, frame,
          detections, stack, rdp_calls, last_call,
          max_retries, base_delay, delivery, attempt, posts, delays>>

----------------------------------------------------------------------------
(* Units and bounds *)

RoundDigits == 4        \* round(out_t, 4)
FormatDigits == 3       \* f"{offset:.3f}"

RECURSIVE Pow10(_)
Pow10(n) == IF n = 0 THEN 1 ELSE 10 * Pow10(n - 1)

TicksPerSecond == Pow10(RoundDigits + 1)
RoundQuantum   == TicksPerSecond \div Pow10(RoundDigits)     \* 0.0001 s in ticks
FormatQuantum  == TicksPerSecond \div Pow10(FormatDigits)    \* 0.001 s in ticks

MaxSegs == 3            \* segments per composition
MaxSamples == 3         \* samples kept per segment
MaxPositions == 4       \* raw positions given to the smoother
MaxPoints == 5          \* points given to the simplifier

RECURSIVE Pow(_, _)
Pow(b, n) == IF n = 0 THEN 1 ELSE b * Pow(b, n - 1)

\* alpha is a number of twentieths (0.15 = 3/20); XDen makes the tenths, 0.05 and
\* every EMA step of a list of MaxPositions positions whole numbers of 1/XDen
AlphaDen == 4 * 5
XDen == 10 * Pow(AlphaDen, MaxPositions - 1)

None == <<>>            \* a position is None or <<x>>
Some(x) == <<x>>

Max(a, b) == IF a >= b THEN a ELSE b
Min(a, b) == IF a <= b THEN a ELSE b
Abs(a) == IF a >= 0 THEN a ELSE 0 - a

----------------------------------------------------------------------------
(* The variables of each function, and their values while it is not in use *)

DefaultMaxSpeed == XDen \div 20         \* max_speed: float = 0.05

timelineVars == <<segments, fade_duration, speed, segment_data, offsets, keyframes, xfade>>

smootherVars == <<positions, alpha, max_speed, smoothed>>

rdpVars == <<points, epsilon, simplified>>
analysisVars == <<pc, available, source, crop, sample_fps, frames, total_frames,
                  detected_frames, result, raised>>

TimelineIdle ==
    /\ segments = <<>>
    /\ fade_duration = 0
    /\ speed = [num |-> 1, den |-> 1]
    /\ segment_data = <<>>
    /\ offsets = <<>>
    /\ keyframes = <<>>
    /\ xfade = <<>>

SmootherIdle ==
    /\ positions = <<>>
    /\ alpha = [num |-> 3, den |-> AlphaDen]
    /\ max_speed = DefaultMaxSpeed
    /\ smoothed = <<>>

RdpIdle ==
    /\ points = <<>>
    /\ epsilon = [num |-> 0, den |-> 1]
    /\ simplified = <<>>

exprVars == <<reduced, crop_x_expr, frame>>

ExprIdle ==
    /\ reduced = <<>>
    /\ crop_x_expr = None
    /\ frame = None

detectVars == <<detections>>

rdpCallVars == <<stack, rdp_calls, last_call>>

webhookVars == <<max_retries, base_delay, delivery, attempt, posts, delays>>

\* the variables no step of the composition and trajectory functions writes
otherVars == <<detectVars, rdpCallVars, webhookVars>>

DetectIdle == detections = <<>>

RdpCallIdle ==
    /\ stack = <<>>
    /\ rdp_calls = 0
    /\ last_call = None

WebhookIdle ==
    /\ max_retries = 0
    /\ base_delay = 0
    /\ delivery = "idle"
    /\ attempt = 0
    /\ posts = <<>>
    /\ delays = <<>>

OtherIdle == DetectIdle /\ RdpCallIdle /\ WebhookIdle

AnalysisIdle ==
    /\ pc = "idle"
    /\ available = TRUE
    /\ source = [w |-> 0, h |-> 0]
    /\ crop = [w |-> 0, h |-> 0]
    /\ sample_fps = 1
    /\ frames = 0
    /\ total_frames = 0
    /\ detected_frames = 0
    /\ result = "pending"
    /\ raised = None

----------------------------------------------------------------------------
(* Rounding: round(v, ndigits) and the %.Nf format both give the multiple *)
(* of the quantum nearest to the value, a tie going to the even multiple. *)

RoundToQuantum(num, den, q) ==
    LET d == den * q
        lo == num \div d
        r == num % d
    IN IF 2 * r < d THEN q * lo
       ELSE IF 2 * r > d THEN q * (lo + 1)
       ELSE IF lo % 2 = 0 THEN q * lo ELSE q * (lo + 1)

----------------------------------------------------------------------------
(* video_engine.Segment *)

Duration(seg) == seg.end - seg.start

RECURSIVE SumDurations(_, _)
\* sum(segments[j].duration for j in range(i)): the first i segments
SumDurations(segs, i) ==
    IF i = 0 THEN 0 ELSE SumDurations(segs, i - 1) + Duration(segs[i])

----------------------------------------------------------------------------
(* face_tracking._map_to_output_timeline *)

\* Placement offset of the segment at Python index k (sequence index k + 1)
MapOffsetNoClamp(segs, k, fade) == SumDurations(segs, k) - k * fade
MapOffsetDocstring(segs, k, fade) == Max(0, SumDurations(segs, k + 1) - (k + 1) * fade)
MapOffset(segs, k, fade) == Max(0, SumDurations(segs, k) - k * fade)

\* out_t = (offset + local_t) / speed; time = round(out_t, 4)
OutTimeNoSpeed(offset, src_t, seg, spd) ==
    RoundToQuantum(offset + (src_t - seg.start), 1, RoundQuantum)
\* (speed is not 0; round(-v, 4) is -round(v, 4))
OutTime(offset, src_t, seg, spd) ==
    LET v == (offset + (src_t - seg.start)) * spd.den
    IN IF spd.num > 0 THEN RoundToQuantum(v, spd.num, RoundQuantum)
       ELSE 0 - RoundToQuantum(v, 0 - spd.num, RoundQuantum)

MapSegment(data, seg, offset, spd) ==
    [j \in 1..Len(data) |->
        [time |-> OutTime(offset, data[j][1], seg, spd), x_norm |-> data[j][2]]]

RECURSIVE MapAll(_, _, _, _, _)
\* the keyframes appended by the first n iterations of "for i, data in enumerate"
MapAll(sdata, segs, fade, spd, n) ==
    IF n = 0 THEN <<>>
    ELSE MapAll(sdata, segs, fade, spd, n - 1)
         \o MapSegment(sdata[n], segs[n], MapOffset(segs, n - 1, fade), spd)

\* list.sort(key=lambda k: k.time): a stable sort
RECURSIVE InsertByTimeUnstable(_, _)
InsertByTimeUnstable(sorted, kf) ==
    IF sorted = <<>> THEN <<kf>>
    ELSE IF sorted[Len(sorted)].time < kf.time THEN Append(sorted, kf)
    ELSE Append(InsertByTimeUnstable(SubSeq(sorted, 1, Len(sorted) - 1), kf),
                sorted[Len(sorted)])

RECURSIVE InsertByTime(_, _)
InsertByTime(sorted, kf) ==
    IF sorted = <<>> THEN <<kf>>
    ELSE IF sorted[Len(sorted)].time <= kf.time THEN Append(sorted, kf)
    ELSE Append(InsertByTime(SubSeq(sorted, 1, Len(sorted) - 1), kf),
                sorted[Len(sorted)])

RECURSIVE SortByTime(_)
SortByTime(kfs) ==
    IF kfs = <<>> THEN <<>>
    ELSE InsertByTime(SortByTime(SubSeq(kfs, 1, Len(kfs) - 1)), kfs[Len(kfs)])

MapToOutputTimeline(sdata, segs, fade, spd) ==
    SortByTime(MapAll(sdata, segs, fade, spd, Len(sdata)))

----------------------------------------------------------------------------
(* video_engine._build_fade_filters *)

\* offset of the transition out of segment k (Python loop index k), as computed
XfadeOffsetNoClamp(segs, k, fade) == SumDurations(segs, k + 1) - (k + 1) * fade
XfadeOffset(segs, k, fade) == Max(0, SumDurations(segs, k + 1) - (k + 1) * fade)

\* the offset={offset:.3f} field of the xfade filter
FormatOffset(v) == RoundToQuantum(v, 1, FormatQuantum)

BuildFadeFilters(segs, fade) ==
    IF Len(segs) = 1 THEN <<>>
    ELSE [k1 \in 1..(Len(segs) - 1) |-> FormatOffset(XfadeOffset(segs, k1 - 1, fade))]

----------------------------------------------------------------------------
(* face_tracking._smooth_trajectory *)

RECURSIVE ForwardFillKeepsFirst(_, _)
\* last is set by the first known value only
ForwardFillKeepsFirst(s, last) ==
    IF s = <<>> THEN <<>>
    ELSE IF Head(s) # None
         THEN <<Head(s)>> \o ForwardFillKeepsFirst(Tail(s), IF last # None THEN last ELSE Head(s))
    ELSE IF last # None THEN <<last>> \o ForwardFillKeepsFirst(Tail(s), last)
    ELSE <<None>> \o ForwardFillKeepsFirst(Tail(s), last)

RECURSIVE ForwardFill(_, _)
\* for i in range(len(filled)): the last known value goes into a following None
ForwardFill(s, last) ==
    IF s = <<>> THEN <<>>
    ELSE IF Head(s) # None THEN <<Head(s)>> \o ForwardFill(Tail(s), Head(s))
    ELSE IF last # None THEN <<last>> \o ForwardFill(Tail(s), last)
    ELSE <<None>> \o ForwardFill(Tail(s), last)

RECURSIVE BackwardFill(_, _)
\* for i in range(len(filled) - 1, -1, -1): the same from the end
BackwardFill(s, last) ==
    IF s = <<>> THEN <<>>
    ELSE LET n == Len(s)
             front == SubSeq(s, 1, n - 1)
         IN IF s[n] # None THEN BackwardFill(front, s[n]) \o <<s[n]>>
            ELSE IF last # None THEN BackwardFill(front, last) \o <<last>>
            ELSE BackwardFill(front, last) \o <<None>>

Filled(pos) == BackwardFill(ForwardFill(pos, None), None)

\* [0.5] * len(positions)
Center == XDen \div 2
AllEdge(n) == [i \in 1..n |-> Some(0)]
AllCenter(n) == [i \in 1..n |-> Some(Center)]

\* one round of the EMA loop: new = prev + alpha * (target - prev), clamped
EmaStepNoClamp(prev, target, a, ms) ==
    prev + (a.num * (target - prev)) \div a.den
\* the clamped step is added whatever the sign of delta
EmaStepClampAdds(prev, target, a, ms) ==
    LET new == prev + (a.num * (target - prev)) \div a.den
        delta == new - prev
    IN IF Abs(delta) > ms THEN prev + ms ELSE new

EmaStep(prev, target, a, ms) ==
    LET new == prev + (a.num * (target - prev)) \div a.den
        delta == new - prev
    IN IF Abs(delta) > ms
       THEN prev + ms * (IF delta > 0 THEN 1 ELSE 0 - 1)
       ELSE new

RECURSIVE Ema(_, _, _, _)
\* smoothed after the iterations 1..n-1 of the loop over filled
Ema(filled, n, a, ms) ==
    IF n = 1 THEN <<filled[1]>>
    ELSE LET sm == Ema(filled, n - 1, a, ms)
         IN Append(sm, Some(EmaStep(sm[n - 1][1], filled[n][1], a, ms)))

SmoothTrajectoryEmptySeed(pos, a, ms) ==
    IF pos = <<>> THEN <<>>
    ELSE LET filled == Filled(pos)
         IN IF \A i \in 1..Len(filled) : filled[i] = None
            THEN AllCenter(Len(pos))
            ELSE Tail(Ema(filled, Len(filled), a, ms))

SmoothTrajectory(pos, a, ms) ==
    IF pos = <<>> THEN <<>>
    ELSE LET filled == Filled(pos)
         IN IF \A i \in 1..Len(filled) : filled[i] = None
            THEN AllCenter(Len(pos))
            ELSE Ema(filled, Len(filled), a, ms)

----------------------------------------------------------------------------
(* Inputs of the smoother specification *)

RawValues == {None, Some(0), Some((3 * XDen) \div 10), Some(XDen)}
Alphas == {[num |-> 0 - 5, den |-> AlphaDen], [num |-> 0, den |-> AlphaDen],
           [num |-> 3, den |-> AlphaDen], [num |-> AlphaDen, den |-> AlphaDen],
           [num |-> 30, den |-> AlphaDen]}
MaxSpeeds == {0, DefaultMaxSpeed, XDen}

InitSmoother ==
    /\ calls = {}
    /\ OtherIdle
    /\ \E n \in 0..MaxPositions : positions \in [1..n -> RawValues]
    /\ alpha \in Alphas
    /\ max_speed \in MaxSpeeds
    /\ smoothed = <<>>
    /\ TimelineIdle
    /\ RdpIdle
    /\ AnalysisIdle
    /\ ExprIdle

CallSmoothTrajectory ==
    /\ "smooth" \notin calls
    /\ calls' = calls \cup {"smooth"}
    /\ smoothed' = SmoothTrajectory(positions, alpha, max_speed)
    /\ UNCHANGED <<positions, alpha, max_speed>>
    /\ UNCHANGED <<timelineVars, rdpVars, analysisVars, otherVars, exprVars>>

NextSmoother == CallSmoothTrajectory

SpecSmoother == InitSmoother /\ [][NextSmoother]_vars

----------------------------------------------------------------------------
(* face_tracking._point_line_dist and face_tracking._rdp                   *)
(* A point is [t, x, idx]: the tuple (t, x) on an integer grid, and idx,   *)
(* its index in the list first given to _rdp, which the code never reads.  *)
(* A distance is kept as its square, a fraction u * v / den with den > 0:   *)
(* the code only compares distances, and d > e iff d * d > e * e.  The      *)
(* square of the perpendicular distance is cross * cross / len_sq, where    *)
(* cross * cross = ap_sq * len_sq - dot * dot; products of two squares are  *)
(* never formed, they are compared through their factors.                  *)

RECURSIVE GreaterFraction(_, _, _, _)
\* n1 / d1 > n2 / d2 for naturals with d1, d2 > 0, by the integer parts and
\* then the inverted fractional parts
GreaterFraction(n1, d1, n2, d2) ==
    IF n1 \div d1 # n2 \div d2 THEN n1 \div d1 > n2 \div d2
    ELSE IF n1 % d1 = 0 THEN FALSE
    ELSE IF n2 % d2 = 0 THEN TRUE
    ELSE GreaterFraction(d2, n2 % d2, d1, n1 % d1)

\* a * b > c * d for naturals
GreaterProduct(a, b, c, d) ==
    IF a = 0 \/ b = 0 THEN FALSE
    ELSE IF c = 0 \/ d = 0 THEN TRUE
    ELSE GreaterFraction(a, c, d, b)

PointLineDistSqInfiniteLine(px, py, ax, ay, bx, by) ==
    LET dx == bx - ax
        dy == by - ay
        len_sq == dx * dx + dy * dy
        ap_sq == (px - ax) * (px - ax) + (py - ay) * (py - ay)
        cross == Abs(dx * (py - ay) - dy * (px - ax))
    IN IF len_sq = 0 THEN [u |-> ap_sq, v |-> 1, den |-> 1]
       ELSE [u |-> cross, v |-> cross, den |-> len_sq]

PointLineDistSq(px, py, ax, ay, bx, by) ==
    LET dx == bx - ax
        dy == by - ay
        len_sq == dx * dx + dy * dy
        ap_sq == (px - ax) * (px - ax) + (py - ay) * (py - ay)
        bp_sq == (px - bx) * (px - bx) + (py - by) * (py - by)
        dot == (px - ax) * dx + (py - ay) * dy
        cross == Abs(dx * (py - ay) - dy * (px - ax))
    IN IF len_sq = 0 THEN [u |-> ap_sq, v |-> 1, den |-> 1]          \* hypot(px - ax, py - ay)
       ELSE IF dot <= 0 THEN [u |-> ap_sq, v |-> 1, den |-> 1]       \* t = 0
       ELSE IF dot >= len_sq THEN [u |-> bp_sq, v |-> 1, den |-> 1]  \* t = 1
       ELSE [u |-> cross, v |-> cross, den |-> len_sq]

\* d > max_dist, on the squares; the distances of one call are whole numbers
\* or share the denominator len_sq
DistGreater(d, m) ==
    IF d.den = m.den THEN GreaterProduct(d.u, d.v, m.u, m.v)
    ELSE IF d.den = 1 THEN GreaterProduct(d.u * d.v, m.den, m.u, m.v)
    ELSE GreaterProduct(d.u, d.v, m.u * m.v, d.den)

\* max_dist >= epsilon
ReachesEpsilon(d, eps) ==
    ~GreaterProduct(eps.num * eps.num, d.den, d.u * eps.den, d.v * eps.den)

\* max_dist > epsilon, on the squares
ExceedsEpsilon(d, eps) ==
    GreaterProduct(d.u * eps.den, d.v * eps.den, eps.num * eps.num, d.den)

RECURSIVE FarthestInterior(_, _)
\* [max_dist, max_idx] after the loop has run over Python indexes 1..i
FarthestInterior(pts, i) ==
    IF i = 0 THEN [max_dist |-> [u |-> 0, v |-> 0, den |-> 1], max_idx |-> 0]
    ELSE LET before == FarthestInterior(pts, i - 1)
             a == pts[1]
             b == pts[Len(pts)]
             d == PointLineDistSq(pts[i + 1].t, pts[i + 1].x, a.t, a.x, b.t, b.x)
         IN IF DistGreater(d, before.max_dist)
            THEN [max_dist |-> d, max_idx |-> i]
            ELSE before

RECURSIVE RdpDropsSplit(_, _)
\* left[:-1] + right[1:]: the point of the split is in neither half
RdpDropsSplit(pts, eps) ==
    IF Len(pts) <= 2 THEN pts
    ELSE LET far == FarthestInterior(pts, Len(pts) - 2)
         IN IF ExceedsEpsilon(far.max_dist, eps)
            THEN LET left == RdpDropsSplit(SubSeq(pts, 1, far.max_idx + 1), eps)
                     right == RdpDropsSplit(SubSeq(pts, far.max_idx + 1, Len(pts)), eps)
                 IN SubSeq(left, 1, Len(left) - 1) \o Tail(right)
            ELSE <<pts[1], pts[Len(pts)]>>

RECURSIVE Rdp(_, _)
Rdp(pts, eps) ==
    IF Len(pts) <= 2 THEN pts
    ELSE LET far == FarthestInterior(pts, Len(pts) - 2)
         IN IF ExceedsEpsilon(far.max_dist, eps)
            THEN LET left == Rdp(SubSeq(pts, 1, far.max_idx + 1), eps)
                     right == Rdp(SubSeq(pts, far.max_idx + 1, Len(pts)), eps)
                 IN SubSeq(left, 1, Len(left) - 1) \o right
            ELSE <<pts[1], pts[Len(pts)]>>

----------------------------------------------------------------------------
(* Inputs of the simplifier specification: time-ordered points, times may *)
(* repeat (round(out_t, 4) can give two keyframes one time)               *)

TimeSteps == {0, 1}
GridX == 0..2
Epsilons == {[num |-> 0, den |-> 1], [num |-> 1, den |-> 2], [num |-> 1, den |-> 1]}

RECURSIVE TimesFrom(_, _)
\* the times reached from t0 by the given steps
TimesFrom(steps, t0) ==
    IF steps = <<>> THEN <<>>
    ELSE <<t0 + steps[1]>> \o TimesFrom(Tail(steps), t0 + steps[1])

InitRdp ==
    /\ calls = {}
    /\ OtherIdle
    /\ \E n \in 0..MaxPoints : \E steps \in [1..n -> TimeSteps] : \E xs \in [1..n -> GridX] :
         points = [i \in 1..n |-> [t |-> TimesFrom(steps, 0)[i], x |-> xs[i], idx |-> i]]
    /\ epsilon \in Epsilons
    /\ simplified = <<>>
    /\ TimelineIdle
    /\ SmootherIdle
    /\ AnalysisIdle
    /\ ExprIdle

CallRdp ==
    /\ "rdp" \notin calls
    /\ calls' = calls \cup {"rdp"}
    /\ simplified' = Rdp(points, epsilon)
    /\ UNCHANGED <<points, epsilon>>
    /\ UNCHANGED <<timelineVars, smootherVars, analysisVars, otherVars, exprVars>>

NextRdp == CallRdp

SpecRdp == InitRdp /\ [][NextRdp]_vars

----------------------------------------------------------------------------
(* face_tracking._rdp, one call at a time.  stack holds the point lists of  *)
(* the calls that have not run yet, the next one first; a call that splits  *)
(* puts its two sublists there, left before right; a call that does not     *)
(* returns its list or its two ends, which left[:-1] + right joins to what   *)
(* the calls before it returned.                                            *)

CallXs == {0, 2}
MaxRdpCalls == 2 * MaxPoints    \* no run of the model goes on beyond these calls

InitRdpCalls ==
    /\ calls = {}
    /\ \E n \in 0..MaxPoints : \E steps \in [1..n -> TimeSteps] : \E xs \in [1..n -> CallXs] :
         points = [i \in 1..n |-> [t |-> TimesFrom(steps, 0)[i], x |-> xs[i], idx |-> i]]
    /\ epsilon \in Epsilons
    /\ simplified = <<>>
    /\ stack = <<points>>
    /\ rdp_calls = 0
    /\ last_call = None
    /\ DetectIdle
    /\ WebhookIdle
    /\ TimelineIdle
    /\ SmootherIdle
    /\ AnalysisIdle
    /\ ExprIdle

\* left[:-1] + right
Joined(left, right) ==
    IF left = <<>> THEN right ELSE SubSeq(left, 1, Len(left) - 1) \o right

\* the next call of _rdp runs up to its recursive calls or its return
RdpCall ==
    /\ stack # <<>>
    /\ rdp_calls < MaxRdpCalls
    /\ rdp_calls' = rdp_calls + 1
    /\ calls' = calls \cup {"rdp"}
    /\ LET pts == Head(stack)
           far == FarthestInterior(pts, Len(pts) - 2)
       IN IF Len(pts) <= 2
          THEN /\ simplified' = Joined(simplified, pts)
               /\ stack' = Tail(stack)
               /\ last_call' = Some([pts |-> pts, split |-> 0])
          ELSE IF ExceedsEpsilon(far.max_dist, epsilon)
          THEN /\ stack' = <<SubSeq(pts, 1, far.max_idx + 1),
                             SubSeq(pts, far.max_idx + 1, Len(pts))>> \o Tail(stack)
               /\ last_call' = Some([pts |-> pts, split |-> far.max_idx + 1])
               /\ UNCHANGED simplified
          ELSE /\ simplified' = Joined(simplified, <<pts[1], pts[Len(pts)]>>)
               /\ stack' = Tail(stack)
               /\ last_call' = Some([pts |-> pts, split |-> 0])
    /\ UNCHANGED <<points, epsilon>>
    /\ UNCHANGED <<timelineVars, smootherVars, analysisVars, exprVars, detectVars, webhookVars>>

NextRdpCalls == RdpCall

SpecRdpCalls == InitRdpCalls /\ [][NextRdpCalls]_vars

----------------------------------------------------------------------------
(* Inputs of the timeline specification *)

SampleInterval == TicksPerSecond \div 4         \* samples 0.25 s apart
FirstStarts == {0, TicksPerSecond + 3}          \* 0 s, 1.00003 s
SegmentGap == 2 * TicksPerSecond + 40           \* source time skipped between segments
Durations == {TicksPerSecond \div 2, TicksPerSecond, 2 * TicksPerSecond + 7}
Fades == {0, (3 * TicksPerSecond) \div 4}       \* 0 s, 0.75 s
Speeds == {[num |-> 1, den |-> 1], [num |-> 2, den |-> 1], [num |-> 21, den |-> 20]}

\* a position that names the sample it belongs to (segment k, sample j)
XTag(k, j) == 10 * k + j

RECURSIVE LayOut(_, _)
\* the segments with the given durations, in source order from the given start
LayOut(durs, start) ==
    IF durs = <<>> THEN <<>>
    ELSE <<[start |-> start, end |-> start + durs[1]]>>
         \o LayOut(SubSeq(durs, 2, Len(durs)), start + durs[1] + SegmentGap)

\* the samples of a segment: source times start + j * interval up to the end
SamplesThatFit(seg) == Min(MaxSamples, Duration(seg) \div SampleInterval + 1)
SegmentSamples(seg, k, n) ==
    [j1 \in 1..n |-> <<seg.start + (j1 - 1) * SampleInterval, XTag(k, j1 - 1)>>]

InitTimeline ==
    /\ calls = {}
    /\ OtherIdle
    /\ \E n \in 1..MaxSegs : \E durs \in [1..n -> Durations] : \E s0 \in FirstStarts :
         /\ segments = LayOut(durs, s0)
         /\ \E has \in [1..n -> BOOLEAN] :
              segment_data =
                [i \in 1..n |->
                    SegmentSamples(segments[i], i - 1,
                        IF has[i] THEN SamplesThatFit(segments[i]) ELSE 0)]
    /\ fade_duration \in Fades
    /\ speed \in Speeds
    /\ offsets = <<>>
    /\ keyframes = <<>>
    /\ xfade = <<>>
    /\ SmootherIdle
    /\ RdpIdle
    /\ AnalysisIdle
    /\ ExprIdle

CallMapToOutputTimeline ==
    /\ "map" \notin calls
    /\ calls' = calls \cup {"map"}
    /\ offsets' = [i \in 1..Len(segment_data) |-> MapOffset(segments, i - 1, fade_duration)]
    /\ keyframes' = MapToOutputTimeline(segment_data, segments, fade_duration, speed)
    /\ UNCHANGED <<segments, fade_duration, speed, segment_data, xfade>>
    /\ UNCHANGED <<smootherVars, rdpVars, analysisVars, otherVars, exprVars>>

CallBuildFadeFilters ==
    /\ "fade" \notin calls
    /\ calls' = calls \cup {"fade"}
    /\ xfade' = BuildFadeFilters(segments, fade_duration)
    /\ UNCHANGED <<segments, fade_duration, speed, segment_data, offsets, keyframes>>
    /\ UNCHANGED <<smootherVars, rdpVars, analysisVars, otherVars, exprVars>>

NextTimeline == CallMapToOutputTimeline \/ CallBuildFadeFilters

SpecTimeline == InitTimeline /\ [][NextTimeline]_vars

----------------------------------------------------------------------------
(* _map_to_output_timeline given any speed, as analyze_face_positions and   *)
(* _analyze_sync pass it on unchecked                                      *)

AnySpeeds == {[num |-> 0 - 1, den |-> 1], [num |-> 0, den |-> 1], [num |-> 1, den |-> 1]}

InitSpeed ==
    /\ calls = {}
    /\ OtherIdle
    /\ \E n \in 1..MaxSegs : \E durs \in [1..n -> Durations] : \E s0 \in FirstStarts :
         /\ segments = LayOut(durs, s0)
         /\ \E has \in [1..n -> BOOLEAN] :
              /\ \E i \in 1..n : has[i]     \* the mapping runs when frames were sampled
              /\ segment_data =
                [i \in 1..n |->
                    SegmentSamples(segments[i], i - 1,
                        IF has[i] THEN SamplesThatFit(segments[i]) ELSE 0)]
    /\ fade_duration \in Fades
    /\ speed \in AnySpeeds
    /\ offsets = <<>>
    /\ keyframes = <<>>
    /\ xfade = <<>>
    /\ SmootherIdle
    /\ RdpIdle
    /\ AnalysisIdle
    /\ ExprIdle

\* (offset + local_t) / speed raises ZeroDivisionError at the first sample
DividesByZero(sdata, spd) == spd.num = 0 /\ \E i \in 1..Len(sdata) : sdata[i] # <<>>

CallMapAnySpeed ==
    /\ "map" \notin calls
    /\ calls' = calls \cup {"map"}
    /\ offsets' = [i \in 1..Len(segment_data) |-> MapOffset(segments, i - 1, fade_duration)]
    /\ IF DividesByZero(segment_data, speed)
       THEN /\ raised' = Some("mapping")
            /\ UNCHANGED keyframes
       ELSE /\ keyframes' = MapToOutputTimeline(segment_data, segments, fade_duration, speed)
            /\ UNCHANGED raised
    /\ UNCHANGED <<segments, fade_duration, speed, segment_data, xfade>>
    /\ UNCHANGED <<pc, available, source, crop, sample_fps, frames, total_frames,
                   detected_frames, result>>
    /\ UNCHANGED <<smootherVars, rdpVars, otherVars, exprVars>>

NextSpeed == CallMapAnySpeed

SpecSpeed == InitSpeed /\ [][NextSpeed]_vars

----------------------------------------------------------------------------
(* face_tracking.analyze_face_positions and face_tracking._analyze_sync,   *)
(* without the simplification and the expression.  segment_data is        *)
(* all_segment_data; positions and smoothed are raw_positions and smoothed *)
(* of the segment sampled last.                                            *)

MaxJobSegs == 2         \* segments of an analysed job
MaxFrames == 3          \* frames FFmpeg returns for one segment

MinExtractDuration == TicksPerSecond \div 10    \* if duration < 0.1: return []
MinTotalDurationTenth == TicksPerSecond \div 10       \* a gate at 0.1 s instead of 3.0 s
MinTotalDuration == 3 * TicksPerSecond          \* if total_dur < 3.0

\* a source of any width passes the width check
TooNarrowNever(src, crp) == FALSE

\* scaled_w = src_w * crop_h / src_h;  scaled_w < crop_w * 1.1
TooNarrow(src, crp) == src.w * crp.h * 10 < crp.w * 11 * src.h

\* ratio = detected_frames / total_frames;  ratio < 0.3
LowRatio(detected, total) == detected * 10 < 3 * total

\* interval = 1.0 / sample_fps
Interval(fps) == TicksPerSecond \div fps

RECURSIVE PairSamplesKeepAll(_, _, _, _)
PairSamplesKeepAll(sm, seg, interval, n) ==
    IF n = 0 THEN <<>>
    ELSE Append(PairSamplesKeepAll(sm, seg, interval, n - 1),
                <<seg.start + (n - 1) * interval, sm[n][1]>>)

RECURSIVE PairSamples(_, _, _, _)
\* seg_data after the loop "for j, x in enumerate(smoothed)" has run over the
\* first n values: the loop breaks at the first t > seg.end
PairSamples(sm, seg, interval, n) ==
    IF n = 0 THEN <<>>
    ELSE LET before == PairSamples(sm, seg, interval, n - 1)
             t == seg.start + (n - 1) * interval
         IN IF Len(before) < n - 1 THEN before        \* the loop has broken
            ELSE IF t > seg.end THEN before           \* break
            ELSE Append(before, <<t, sm[n][1]>>)

Count(pos) == Cardinality({i \in 1..Len(pos) : pos[i] # None})

----------------------------------------------------------------------------
(* face_tracking._analyze_sync, the simplification of the mapped keyframes: *)
(* points = (time, x_norm), t_max = max time or 1.0, normalized =           *)
(* (t / t_max, x), _rdp(normalized, epsilon=0.008), times multiplied back.  *)
(* The normalized points are given to Rdp on the coarsest integer grid that *)
(* holds them all: GridSteps steps of the grid are 1.0 on both axes, and    *)
(* epsilon is 0.008 * GridSteps steps.                                      *)

RECURSIVE Gcd(_, _)
Gcd(a, b) == IF b = 0 THEN a ELSE Gcd(b, a % b)

RdpEpsilon == [num |-> 8, den |-> 1000]         \* epsilon=0.008

RECURSIVE MaxTime(_)
\* max(p[0] for p in points)
MaxTime(kfs) ==
    IF Len(kfs) = 1 THEN kfs[1].time ELSE Max(kfs[1].time, MaxTime(Tail(kfs)))

TimeScaleOneSecond(kfs) == TicksPerSecond

\* t_max = max(...) or 1.0
TimeScale(kfs) == IF MaxTime(kfs) = 0 THEN TicksPerSecond ELSE MaxTime(kfs)

RECURSIVE TimeUnit(_, _)
\* the largest unit that the first n times and t_max are whole multiples of
TimeUnit(kfs, n) ==
    IF n = 0 THEN TimeScale(kfs) ELSE Gcd(TimeUnit(kfs, n - 1), kfs[n].time)

RECURSIVE XUnit(_, _)
\* the largest unit that the first n positions and 1.0 are whole multiples of
XUnit(kfs, n) ==
    IF n = 0 THEN XDen ELSE Gcd(XUnit(kfs, n - 1), kfs[n].x_norm)

TimeGrid(kfs) == TimeScale(kfs) \div TimeUnit(kfs, Len(kfs))
XGrid(kfs) == XDen \div XUnit(kfs, Len(kfs))
GridSteps(kfs) == TimeGrid(kfs) * XGrid(kfs)

\* normalized = [(t / t_max, x) for t, x in points]
Normalized(kfs) ==
    [i \in 1..Len(kfs) |->
        [t |-> (kfs[i].time \div TimeUnit(kfs, Len(kfs))) * XGrid(kfs),
         x |-> (kfs[i].x_norm \div XUnit(kfs, Len(kfs))) * TimeGrid(kfs),
         idx |-> i]]

\* epsilon in grid steps, in lowest terms
GridEpsilon(kfs) ==
    LET g == Gcd(RdpEpsilon.num * GridSteps(kfs), RdpEpsilon.den)
    IN [num |-> (RdpEpsilon.num * GridSteps(kfs)) \div g, den |-> RdpEpsilon.den \div g]

\* simplified = [(t * t_max, x) for t, x in simplified];
\* keyframes = [CropKeyframe(time=t, x_norm=x) for t, x in simplified]
Restored(kfs, simp) ==
    [j \in 1..Len(simp) |->
        [time |-> (simp[j].t \div XGrid(kfs)) * TimeUnit(kfs, Len(kfs)),
         x_norm |-> (simp[j].x \div TimeGrid(kfs)) * XUnit(kfs, Len(kfs))]]

----------------------------------------------------------------------------
(* Inputs of the simplification specification: keyframes sorted by time,   *)
(* as _map_to_output_timeline returns them, at least two (fewer return     *)
(* before the simplification); all the times can be 0, when every segment  *)
(* is placed at offset 0 and gives one sample                              *)

KeyframeSteps == {0, TicksPerSecond \div 2}
KeyframeXs == {XDen \div 2, XDen \div 2 + XDen \div 250, XDen \div 2 + XDen \div 50}

InitSimplify ==
    /\ calls = {}
    /\ OtherIdle
    /\ \E n \in 2..MaxPoints : \E steps \in [1..n -> KeyframeSteps] :
         \E xs \in [1..n -> KeyframeXs] :
           keyframes = [i \in 1..n |-> [time |-> TimesFrom(steps, 0)[i], x_norm |-> xs[i]]]
    /\ segments = <<>>
    /\ fade_duration = 0
    /\ speed = [num |-> 1, den |-> 1]
    /\ segment_data = <<>>
    /\ offsets = <<>>
    /\ xfade = <<>>
    /\ SmootherIdle
    /\ RdpIdle
    /\ AnalysisIdle
    /\ ExprIdle

CallSimplify ==
    /\ "simplify" \notin calls
    /\ calls' = calls \cup {"simplify"}
    /\ points' = Normalized(keyframes)
    /\ epsilon' = GridEpsilon(keyframes)
    /\ simplified' = Rdp(points', epsilon')
    /\ reduced' = Restored(keyframes, simplified')
    /\ UNCHANGED <<crop_x_expr, frame>>
    /\ UNCHANGED <<timelineVars, smootherVars, analysisVars, otherVars>>

NextSimplify == CallSimplify

SpecSimplify == InitSimplify /\ [][NextSimplify]_vars

----------------------------------------------------------------------------
(* face_tracking._build_crop_x_expr                                        *)
(* The returned string is kept as its parts, each number as it is printed: *)
(*   kind "center":   (iw-{crop_w})/2                                      *)
(*   kind "clamped":  trunc(min(max(E\,0)\,iw-{crop_w})/2)*2, where E is   *)
(*     if(lt(t\,{t_end})\,({f0}+{df}*(t-{t0})/{dt})*iw-{half}\,E') for     *)
(*     each branch in turn and ends in {f}*iw-{half}.                      *)
(* f and f0 are whole numbers of 0.0001, df of 0.000001, t_end, t0 and dt  *)
(* are ticks (whole milliseconds), half and crop_w are pixels.             *)

XDigits == 4            \* f"{f:.4f}", f"{f0:.4f}", f"{last_f:.4f}"
DeltaDigits == 6        \* f"{df:.6f}"
MinDtTenth == TicksPerSecond \div 10000 \* a threshold of 0.0001, the digits round(out_t, 4) keeps
MinDt == TicksPerSecond \div 1000       \* if dt < 0.001: continue

\* v / XDen as f"{v:.{digits}f}" prints it, in units of 10^-digits
FormatFraction(v, digits) ==
    LET g == Gcd(Pow10(digits), XDen)
    IN RoundToQuantum(v * (Pow10(digits) \div g), XDen \div g, 1)

FormatX(x) == FormatFraction(x, XDigits)
FormatDelta(df) == FormatFraction(df, DeltaDigits)
FormatTime(t) == RoundToQuantum(t, 1, FormatQuantum)    \* f"{t0:.3f}"
FormatHalf(crop_w) == RoundToQuantum(crop_w, 2, 1)      \* f"{half_cw:.0f}"

RECURSIVE Branches(_, _)
\* segs after the loop "for i in range(len(keyframes) - 1)" has run n times
Branches(kfs, n) ==
    IF n = 0 THEN <<>>
    ELSE LET before == Branches(kfs, n - 1)
             dt == kfs[n + 1].time - kfs[n].time
         IN IF dt < MinDt THEN before
            ELSE Append(before,
                        [t_end |-> FormatTime(kfs[n + 1].time),
                         f0 |-> FormatX(kfs[n].x_norm),
                         df |-> FormatDelta(kfs[n + 1].x_norm - kfs[n].x_norm),
                         t0 |-> FormatTime(kfs[n].time),
                         dt |-> FormatTime(dt)])

CenterExpr(crop_w) ==
    [kind |-> "center", crop_w |-> crop_w, half |-> 0, f |-> 0, branches |-> <<>>]

ClampedExpr(f, branches, crop_w) ==
    [kind |-> "clamped", crop_w |-> crop_w, half |-> FormatHalf(crop_w),
     f |-> FormatX(f), branches |-> branches]

BuildCropXExprAlwaysCenter(kfs, crop_w) == CenterExpr(crop_w)

BuildCropXExpr(kfs, crop_w) ==
    IF kfs = <<>> THEN CenterExpr(crop_w)
    ELSE IF Len(kfs) = 1 THEN ClampedExpr(kfs[1].x_norm, <<>>, crop_w)
    ELSE LET segs == Branches(kfs, Len(kfs) - 1)
         IN IF segs = <<>> THEN ClampedExpr(kfs[1].x_norm, <<>>, crop_w)
            ELSE ClampedExpr(kfs[Len(kfs)].x_norm, segs, crop_w)

----------------------------------------------------------------------------
(* The value of a "clamped" expression at time t and input width iw, in    *)
(* exact arithmetic on fractions [num, den] in lowest terms, den > 0       *)

Fraction(n, d) ==
    LET g == Gcd(Abs(n), d) IN [num |-> n \div g, den |-> d \div g]

FracAdd(a, b) ==
    LET g == Gcd(a.den, b.den)
    IN Fraction(a.num * (b.den \div g) + b.num * (a.den \div g), (a.den \div g) * b.den)

FracMul(a, b) ==
    LET g == Gcd(Abs(a.num), b.den)
        h == Gcd(Abs(b.num), a.den)
    IN Fraction((a.num \div g) * (b.num \div h), (a.den \div h) * (b.den \div g))

RECURSIVE PickBranch(_, _, _)
\* the first branch from index i on whose lt(t, t_end) holds, 0 when none does
PickBranch(branches, t, i) ==
    IF i > Len(branches) THEN 0
    ELSE IF t < branches[i].t_end THEN i
    ELSE PickBranch(branches, t, i + 1)

LerpAtStart(b, t) == Fraction(b.f0, Pow10(XDigits))

\* {f0}+{df}*(t-{t0})/{dt}
LerpAt(b, t) ==
    FracAdd(Fraction(b.f0, Pow10(XDigits)),
            FracMul(Fraction(b.df, Pow10(DeltaDigits)), Fraction(t - b.t0, b.dt)))

\* the factor of iw in the branch taken at t
FaceX(e, t) ==
    LET i == PickBranch(e.branches, t, 1)
    IN IF i = 0 THEN Fraction(e.f, Pow10(XDigits)) ELSE LerpAt(e.branches[i], t)

RECURSIVE MulDivMod(_, _, _)
\* the quotient and the remainder of b * m by q, for 0 <= b < q, by halving m
MulDivMod(b, m, q) ==
    IF m = 0 THEN [quot |-> 0, rem |-> 0]
    ELSE LET h == MulDivMod(b, m \div 2, q)
             twice == IF 2 * h.rem >= q
                      THEN [quot |-> 2 * h.quot + 1, rem |-> 2 * h.rem - q]
                      ELSE [quot |-> 2 * h.quot, rem |-> 2 * h.rem]
         IN IF m % 2 = 0 THEN twice
            ELSE IF twice.rem + b >= q
                 THEN [quot |-> twice.quot + 1, rem |-> twice.rem + b - q]
                 ELSE [quot |-> twice.quot, rem |-> twice.rem + b]

\* the whole part of f * m, for a fraction f >= 0 and a natural m
WholePart(f, m) ==
    (f.num \div f.den) * m + MulDivMod(f.num % f.den, m, f.den).quot

\* the whole part of min(max(face_x*iw-half, 0), iw-crop_w); half is between 0
\* and crop_w, so a face_x under 0 gives max(.., 0) = 0 and a face_x of 1 or
\* more gives at least iw-crop_w: the product with iw is formed only in between
ClampedWhole(e, t, iw) ==
    LET face_x == FaceX(e, t)
        hi == iw - e.crop_w
        lo == IF face_x.num < 0 THEN 0 ELSE Max(WholePart(face_x, iw) - e.half, 0)
    IN IF face_x.num >= face_x.den THEN hi ELSE Min(lo, hi)

\* trunc(v/2)*2: trunc drops the fraction of v/2, towards zero
TruncHalfTwice(v) == IF v >= 0 THEN 2 * (v \div 2) ELSE 0 - 2 * ((0 - v) \div 2)

\* trunc(min(max(face_x*iw-half, 0), iw-crop_w)/2)*2
CropX(e, t, iw) == TruncHalfTwice(ClampedWhole(e, t, iw))

----------------------------------------------------------------------------
(* Inputs of the expression specification: keyframes sorted by time, the   *)
(* gaps between them under and over a millisecond, positions that take     *)
(* four decimals and one that takes six; frames at whole half seconds      *)

MaxKeyframes == 3       \* keyframes given to _build_crop_x_expr

FirstTimes == {0, TicksPerSecond}
Gaps == {(4 * TicksPerSecond) \div 10000, (14 * TicksPerSecond) \div 10000,
         TicksPerSecond, 2 * TicksPerSecond}
ExprXs == {(3 * XDen) \div 10, (7 * XDen) \div 10, (3 * XDen) \div 10 + 3 * (XDen \div 40000)}
CropWidths == {400, 605}
InputWidths == {1080, 1081}
FrameTimes == {(k * TicksPerSecond) \div 2 : k \in {0, 1, 2, 3, 4, 6, 20}}

InitExpr ==
    /\ calls = {}
    /\ OtherIdle
    /\ \E n \in 0..MaxKeyframes : \E first \in FirstTimes :
         \E gaps \in [1..(IF n = 0 THEN 0 ELSE n - 1) -> Gaps] : \E xs \in [1..n -> ExprXs] :
           /\ n = 0 => first = 0
           /\ reduced = [i \in 1..n |->
                           [time |-> IF i = 1 THEN first
                                     ELSE first + TimesFrom(gaps, 0)[i - 1],
                            x_norm |-> xs[i]]]
    /\ crop \in {[w |-> cw, h |-> 0] : cw \in CropWidths}
    /\ crop_x_expr = None
    /\ frame = None
    /\ pc = "idle"
    /\ available = TRUE
    /\ source = [w |-> 0, h |-> 0]
    /\ sample_fps = 1
    /\ frames = 0
    /\ total_frames = 0
    /\ detected_frames = 0
    /\ result = "pending"
    /\ raised = None
    /\ TimelineIdle
    /\ SmootherIdle
    /\ RdpIdle

CallBuildCropXExpr ==
    /\ "expr" \notin calls
    /\ calls' = calls \cup {"expr"}
    /\ crop_x_expr' = BuildCropXExpr(reduced, crop.w)
    /\ UNCHANGED <<reduced, frame>>
    /\ UNCHANGED <<timelineVars, smootherVars, rdpVars, analysisVars, otherVars>>

\* the renderer evaluates the expression for a frame at time t of an input
\* that is iw pixels wide
EvalFrame ==
    /\ "expr" \in calls
    /\ crop_x_expr.kind = "clamped"
    /\ frame = None
    /\ \E t \in FrameTimes : \E iw \in InputWidths :
         frame' = [t |-> t, iw |-> iw, x |-> CropX(crop_x_expr, t, iw)]
    /\ UNCHANGED <<calls, reduced, crop_x_expr>>
    /\ UNCHANGED <<timelineVars, smootherVars, rdpVars, analysisVars, otherVars>>

NextExpr == CallBuildCropXExpr \/ EvalFrame

SpecExpr == InitExpr /\ [][NextExpr]_vars

----------------------------------------------------------------------------
(* Inputs of the analysis specification *)

JobDurations == {TicksPerSecond \div 20, (3 * TicksPerSecond) \div 2, 3 * TicksPerSecond}
JobStart == TicksPerSecond + 3
JobFade == (3 * TicksPerSecond) \div 4
JobSpeeds == {[num |-> 1, den |-> 1], [num |-> 2, den |-> 1]}
JobAlpha == [num |-> 3, den |-> AlphaDen]
SampleRates == {1, 2}
Sources == {[w |-> 1920, h |-> 1080], [w |-> 1080, h |-> 1920]}
Crop == [w |-> 608, h |-> 1080]

\* what the detector can report for n frames: no face at all, a face in the
\* middle that is at the right edge from the second frame on, a face found from
\* the second frame on
Detections(n) ==
    { [j \in 1..n |-> None],
      [j \in 1..n |-> IF j = 1 THEN Some(XDen \div 2) ELSE Some(XDen)],
      [j \in 1..n |-> IF j = 1 THEN None ELSE Some(XDen \div 5)] }

InitAnalysis ==
    /\ calls = {}
    /\ OtherIdle
    /\ pc = "start"
    /\ available \in BOOLEAN
    /\ source \in Sources
    /\ crop = Crop
    /\ sample_fps \in SampleRates
    /\ \E n \in 1..MaxJobSegs : \E durs \in [1..n -> JobDurations] :
         segments = LayOut(durs, JobStart)
    /\ fade_duration = JobFade
    /\ speed \in JobSpeeds
    /\ alpha = JobAlpha
    /\ max_speed = DefaultMaxSpeed
    /\ segment_data = <<>>
    /\ positions = <<>>
    /\ smoothed = <<>>
    /\ frames = 0
    /\ total_frames = 0
    /\ detected_frames = 0
    /\ offsets = <<>>
    /\ keyframes = <<>>
    /\ xfade = <<>>
    /\ result = "pending"
    /\ raised = None
    /\ RdpIdle
    /\ ExprIdle

analysisInputs == <<available, source, crop, sample_fps, segments, fade_duration,
                    speed, alpha, max_speed, xfade, frame, otherVars>>

sampled == <<segment_data, positions, smoothed, frames, total_frames, detected_frames>>

trajectory == <<offsets, keyframes, points, epsilon, simplified, reduced, crop_x_expr>>

\* analyze_face_positions up to the loop over the segments: the dependency
\* check, the probe, the width check and the duration check
StartAnalysis ==
    /\ pc = "start"
    /\ IF ~available \/ TooNarrow(source, crop)
          \/ SumDurations(segments, Len(segments)) < MinTotalDuration
       THEN pc' = "done" /\ result' = "None"
       ELSE pc' = "sampling" /\ result' = result
    /\ UNCHANGED <<analysisInputs, sampled, trajectory, calls, raised>>

\* _probe_video raises (ffprobe fails); the caller's except returns None
ProbeFails ==
    /\ pc = "start"
    /\ available
    /\ pc' = "done"
    /\ result' = "None"
    /\ raised' = Some("probe")
    /\ UNCHANGED <<analysisInputs, sampled, trajectory, calls>>

\* the sample list of a segment is put in front of those gathered before
SampleSegmentPrepends ==
    /\ pc = "sampling"
    /\ Len(segment_data) < Len(segments)
    /\ LET seg == segments[Len(segment_data) + 1]
       IN \E n \in 0..MaxFrames :
            /\ Duration(seg) < MinExtractDuration => n = 0
            /\ frames' = n
            /\ IF n = 0
               THEN /\ segment_data' = <<<<>>>> \o segment_data
                    /\ UNCHANGED <<positions, smoothed, total_frames, detected_frames>>
               ELSE \E raw \in Detections(n) :
                    /\ positions' = raw
                    /\ total_frames' = total_frames + n
                    /\ detected_frames' = detected_frames + Count(raw)
                    /\ smoothed' = SmoothTrajectory(raw, alpha, DefaultMaxSpeed)
                    /\ segment_data' =
                         <<PairSamples(smoothed', seg, Interval(sample_fps),
                                       Len(smoothed'))>> \o segment_data
    /\ UNCHANGED <<analysisInputs, trajectory, calls, pc, result, raised>>

\* one round of "for seg in segments": extract, detect, smooth, pair
SampleSegment ==
    /\ pc = "sampling"
    /\ Len(segment_data) < Len(segments)
    /\ LET seg == segments[Len(segment_data) + 1]
       IN \E n \in 0..MaxFrames :
            /\ Duration(seg) < MinExtractDuration => n = 0
            /\ frames' = n
            /\ IF n = 0
               THEN /\ segment_data' = Append(segment_data, <<>>)
                    /\ UNCHANGED <<positions, smoothed, total_frames, detected_frames>>
               ELSE \E raw \in Detections(n) :
                    /\ positions' = raw
                    /\ total_frames' = total_frames + n
                    /\ detected_frames' = detected_frames + Count(raw)
                    /\ smoothed' = SmoothTrajectory(raw, alpha, DefaultMaxSpeed)
                    /\ segment_data' =
                         Append(segment_data,
                                PairSamples(smoothed', seg, Interval(sample_fps),
                                            Len(smoothed')))
    /\ UNCHANGED <<analysisInputs, trajectory, calls, pc, result, raised>>

\* the failing segment is given an empty sample list and the loop goes on
SampleSegmentFailsDegrades ==
    /\ pc = "sampling"
    /\ Len(segment_data) < Len(segments)
    /\ raised' = Some("sampling")
    /\ segment_data' = Append(segment_data, <<>>)
    /\ frames' = 0
    /\ UNCHANGED <<positions, smoothed, total_frames, detected_frames>>
    /\ UNCHANGED <<analysisInputs, trajectory, calls, pc, result>>

\* the extraction or the detection of a segment raises: nothing in the loop
\* catches it, the except of analyze_face_positions returns None
SampleSegmentFails ==
    /\ pc = "sampling"
    /\ Len(segment_data) < Len(segments)
    /\ pc' = "done"
    /\ result' = "None"
    /\ raised' = Some("sampling")
    /\ UNCHANGED <<analysisInputs, sampled, trajectory, calls>>

NoFramesNever(total) == FALSE

\* if total_frames == 0
NoFrames(total) == total = 0

TooFewKeyframesOnlyNone(kfs) == Len(kfs) < 1

\* if len(keyframes) < 2
TooFewKeyframes(kfs) == Len(kfs) < 2

\* after the loop: the frame count and ratio checks, the mapping to the output
\* timeline, the keyframe count check, the simplification and the expression
FinishAnalysis ==
    /\ pc = "sampling"
    /\ Len(segment_data) = Len(segments)
    /\ pc' = "done"
    /\ IF NoFrames(total_frames)
       THEN /\ result' = "None"
            /\ UNCHANGED <<trajectory, calls, raised>>
       ELSE IF total_frames = 0         \* detected_frames / total_frames raises
       THEN /\ result' = "None"
            /\ raised' = Some("ratio")
            /\ UNCHANGED <<trajectory, calls>>
       ELSE IF LowRatio(detected_frames, total_frames)
       THEN /\ result' = "None"
            /\ UNCHANGED <<trajectory, calls, raised>>
       ELSE /\ offsets' = [i \in 1..Len(segment_data) |->
                              MapOffset(segments, i - 1, fade_duration)]
            /\ keyframes' = MapToOutputTimeline(segment_data, segments, fade_duration, speed)
            /\ UNCHANGED raised
            /\ IF TooFewKeyframes(keyframes')
               THEN /\ result' = "None"
                    /\ calls' = calls \cup {"map"}
                    /\ UNCHANGED <<points, epsilon, simplified, reduced, crop_x_expr>>
               ELSE /\ calls' = calls \cup {"map", "rdp", "expr"}
                    /\ points' = Normalized(keyframes')
                    /\ epsilon' = GridEpsilon(keyframes')
                    /\ simplified' = Rdp(points', epsilon')
                    /\ reduced' = Restored(keyframes', simplified')
                    /\ crop_x_expr' = BuildCropXExpr(reduced', crop.w)
                    /\ result' = "trajectory"
    /\ UNCHANGED <<analysisInputs, sampled>>

\* the exception leaves analyze_face_positions
LaterStepFailsPropagates ==
    /\ pc = "sampling"
    /\ Len(segment_data) = Len(segments)
    /\ ~NoFrames(total_frames)
    /\ ~LowRatio(detected_frames, total_frames)
    /\ raised' = Some("mapping")
    /\ pc' = "done"
    /\ result' = "raised"
    /\ UNCHANGED <<analysisInputs, sampled, trajectory, calls>>

\* _map_to_output_timeline, _rdp or _build_crop_x_expr raises (a RecursionError
\* of _rdp on a long list of keyframes, a MemoryError): nothing in
\* _analyze_sync catches it, the except of analyze_face_positions returns None
LaterStepFails ==
    /\ pc = "sampling"
    /\ Len(segment_data) = Len(segments)
    /\ ~NoFrames(total_frames)
    /\ ~LowRatio(detected_frames, total_frames)
    /\ \E step \in {"mapping", "simplification", "expression"} :
         LET mapped == MapToOutputTimeline(segment_data, segments, fade_duration, speed)
         IN /\ raised' = Some(step)
            /\ IF step = "mapping"
               THEN UNCHANGED <<offsets, keyframes, calls>>
               ELSE /\ ~TooFewKeyframes(mapped)
                    /\ offsets' = [i \in 1..Len(segment_data) |->
                                      MapOffset(segments, i - 1, fade_duration)]
                    /\ keyframes' = mapped
                    /\ calls' = calls \cup {"map"}
    /\ pc' = "done"
    /\ result' = "None"
    /\ UNCHANGED <<points, epsilon, simplified, reduced, crop_x_expr>>
    /\ UNCHANGED <<analysisInputs, sampled>>

NextAnalysis ==
    \/ StartAnalysis
    \/ ProbeFails
    \/ SampleSegment
    \/ SampleSegmentFails
    \/ FinishAnalysis
    \/ LaterStepFails

SpecAnalysis == InitAnalysis /\ [][NextAnalysis]_vars

----------------------------------------------------------------------------
(* face_tracking._detect_faces, the loop over the frames.  A detection is   *)
(* its relative_bounding_box [xmin, width, height], each a whole number of  *)
(* tenths of the frame; a box can reach over the edge of the frame.         *)

MaxFaces == 2           \* detections in one frame

BoxUnit == XDen \div 10

\* area = max(0, bb.width) * max(0, bb.height)
Area(bb) == Max(0, bb.width) * Max(0, bb.height)

\* bb.xmin + bb.width / 2.0, in 1/XDen
CenterX(bb) == bb.xmin * BoxUnit + (bb.width * BoxUnit) \div 2

RECURSIVE BestFace(_, _)
\* [best_area, best_x] after the loop over the first n detections
BestFace(dets, n) ==
    IF n = 0 THEN [best_area |-> 0, best_x |-> Center]
    ELSE LET before == BestFace(dets, n - 1)
         IN IF Area(dets[n]) > before.best_area
            THEN [best_area |-> Area(dets[n]), best_x |-> CenterX(dets[n])]
            ELSE before

\* max(0.0, min(1.0, best_x))
Clamp01(x) == Max(0, Min(XDen, x))

\* what one round of "for frame in frames" appends
FacePosition(dets) ==
    IF dets = <<>> THEN None
    ELSE Some(Clamp01(BestFace(dets, Len(dets)).best_x))

\* two boxes of one area, two larger ones of one area that reach over the right
\* and the left edge, a box without width and a box of negative width
Boxes ==
    { [xmin |-> 2, width |-> 2, height |-> 2],
      [xmin |-> 5, width |-> 2, height |-> 2],
      [xmin |-> 8, width |-> 6, height |-> 2],
      [xmin |-> 0 - 3, width |-> 2, height |-> 6],
      [xmin |-> 2, width |-> 0, height |-> 3],
      [xmin |-> 4, width |-> 0 - 2, height |-> 2] }

InitDetect ==
    /\ calls = {}
    /\ detections = <<>>
    /\ RdpCallIdle
    /\ WebhookIdle
    /\ TimelineIdle
    /\ SmootherIdle
    /\ RdpIdle
    /\ AnalysisIdle
    /\ ExprIdle

\* one round of "for frame in frames"
DetectFrame ==
    /\ Len(positions) < MaxFrames
    /\ \E n \in 0..MaxFaces : \E dets \in [1..n -> Boxes] :
         /\ detections' = dets
         /\ positions' = Append(positions, FacePosition(dets))
    /\ calls' = calls \cup {"detect"}
    /\ UNCHANGED <<alpha, max_speed, smoothed>>
    /\ UNCHANGED <<timelineVars, rdpVars, analysisVars, exprVars, rdpCallVars, webhookVars>>

NextDetect == DetectFrame

SpecDetect == InitDetect /\ [][NextDetect]_vars

----------------------------------------------------------------------------
(* webhook_sender.send_webhook.  A response of http_client.post is its     *)
(* status code, or a network error (httpx.RequestError); posts is the       *)
(* responses received so far and delays the sleeps taken, in ticks.         *)
(* delivery is where the coroutine stands: "post" before the POST of        *)
(* iteration attempt, "sleep" before asyncio.sleep, "returned", "raised".   *)

MaxRetries == 2

RetryCounts == 0..MaxRetries                              \* settings.webhook_max_retries
BaseDelays == {TicksPerSecond, 2 * TicksPerSecond}        \* settings.webhook_retry_base_delay
Statuses == {200, 299, 300, 404, 429, 499, 500}
Responses ==
    {[error |-> FALSE, status |-> c] : c \in Statuses} \cup {[error |-> TRUE, status |-> 0]}

\* every failure is tried again, a client error too
RetriedAnyFailure(r) == r.error \/ r.status >= 300

\* the responses after which the loop goes on to the backoff
Retried(r) == r.error \/ r.status = 429 \/ r.status >= 500

\* if response.status_code < 300: return
Delivered(r) == ~r.error /\ r.status < 300

InitWebhook ==
    /\ calls = {}
    /\ max_retries \in RetryCounts
    /\ base_delay \in BaseDelays
    /\ delivery = "post"
    /\ attempt = 0
    /\ posts = <<>>
    /\ delays = <<>>
    /\ DetectIdle
    /\ RdpCallIdle
    /\ TimelineIdle
    /\ SmootherIdle
    /\ RdpIdle
    /\ AnalysisIdle
    /\ ExprIdle

\* one iteration of the loop up to its sleep: the POST and what its response
\* leads to; after the last iteration the loop ends and the function raises
Post ==
    /\ delivery = "post"
    /\ attempt < max_retries + 1
    /\ \E r \in Responses :
         /\ posts' = Append(posts, r)
         /\ IF Delivered(r) THEN delivery' = "returned" /\ attempt' = attempt
            ELSE IF ~Retried(r) THEN delivery' = "raised" /\ attempt' = attempt
            ELSE IF attempt < max_retries THEN delivery' = "sleep" /\ attempt' = attempt
            ELSE delivery' = "raised" /\ attempt' = attempt + 1
    /\ UNCHANGED <<calls, max_retries, base_delay, delays>>
    /\ UNCHANGED <<timelineVars, smootherVars, rdpVars, analysisVars, exprVars, detectVars, rdpCallVars>>

\* await asyncio.sleep(base_delay * (2 ** attempt)), then the next iteration
Sleep ==
    /\ delivery = "sleep"
    /\ delays' = Append(delays, base_delay * Pow(2, attempt))
    /\ attempt' = attempt + 1
    /\ delivery' = "post"
    /\ UNCHANGED <<calls, max_retries, base_delay, posts>>
    /\ UNCHANGED <<timelineVars, smootherVars, rdpVars, analysisVars, exprVars, detectVars, rdpCallVars>>

NextWebhook == Post \/ Sleep

SpecWebhook == InitWebhook /\ [][NextWebhook]_vars

----------------------------------------------------------------------------
(* Claims about the timeline (SpecTimeline) *)

RECURSIVE SumSeq(_)
SumSeq(s) == IF s = <<>> THEN 0 ELSE s[1] + SumSeq(SubSeq(s, 2, Len(s)))

\* sum of the durations of the segments at Python indexes 0..k-1
DurationsBefore(k) == SumSeq([j \in 1..k |-> segments[j].end - segments[j].start])

\* the keyframe made from sample j of the segment at Python index k
KeyframesOf(k, j) == {n \in 1..Len(keyframes) : keyframes[n].x_norm = XTag(k, j)}

Mapped == "map" \in calls
Faded == "fade" \in calls

\* C1: the mapper places the segment at index k at
\* offset_k = max(0, (sum of the durations of segments 0..k-1) - k * fade_duration),
\* and offset_0 = 0 for any input.
C1_OffsetFormula ==
    Mapped =>
        /\ Len(offsets) = Len(segments)
        /\ offsets[1] = 0
        /\ \A k \in 0..(Len(segments) - 1) :
              offsets[k + 1] = Max(0, DurationsBefore(k) - k * fade_duration)

C1_Witness ==
    /\ Mapped
    /\ Len(segments) = 3
    /\ fade_duration > 0
    /\ offsets[2] = 0
    /\ offsets[3] > 0

\* C2 as stated: offsets are >= 0 and non-decreasing in k for any durations and
\* fade, also when a segment is shorter than the fade.
C2_Original ==
    Mapped =>
        /\ \A k \in 1..Len(offsets) : offsets[k] >= 0
        /\ \A k \in 1..(Len(offsets) - 1) : offsets[k] <= offsets[k + 1]

\* C2 amended: offsets are >= 0 for all k, and offset_k <= offset_{k+1} whenever
\* segment k is at least as long as the fade.
C2_MonotoneWhenFadeFits ==
    Mapped =>
        /\ \A k \in 1..Len(offsets) : offsets[k] >= 0
        /\ \A k \in 1..(Len(offsets) - 1) :
              Duration(segments[k]) >= fade_duration => offsets[k] <= offsets[k + 1]

C2_Witness ==
    /\ Mapped
    /\ Len(segments) = 3
    /\ fade_duration > 0
    /\ Duration(segments[1]) < fade_duration
    /\ Duration(segments[2]) >= fade_duration
    /\ offsets[2] < offsets[3]

\* C3 as stated: the output time of every sample equals
\* (offset_k + (s - segment_k.start)) / speed exactly.
C3_Original ==
    Mapped =>
        \A k \in 0..(Len(segments) - 1) : \A j \in 1..Len(segment_data[k + 1]) :
            \A n \in KeyframesOf(k, j - 1) :
                keyframes[n].time * speed.num =
                    (offsets[k + 1] + (segment_data[k + 1][j][1] - segments[k + 1].start))
                        * speed.den

\* C3 amended: the output time of every sample is
\* (offset_k + (s - segment_k.start)) / speed rounded to 4 decimals: a multiple of
\* 0.0001 s at most 0.00005 s away from that value; every sample has one keyframe.
C3_OutTimeRounded ==
    Mapped =>
        \A k \in 0..(Len(segments) - 1) : \A j \in 1..Len(segment_data[k + 1]) :
            /\ Cardinality(KeyframesOf(k, j - 1)) = 1
            /\ \A n \in KeyframesOf(k, j - 1) :
                /\ keyframes[n].time % RoundQuantum = 0
                /\ 2 * Abs(keyframes[n].time * speed.num
                           - (offsets[k + 1]
                              + (segment_data[k + 1][j][1] - segments[k + 1].start))
                             * speed.den)
                      <= RoundQuantum * speed.num

C3_Witness ==
    /\ Mapped
    /\ speed = [num |-> 2, den |-> 1]
    /\ Len(segments) >= 2
    /\ \E n \in KeyframesOf(1, 1) :
          /\ offsets[2] > 0
          /\ keyframes[n].time * 2 # offsets[2] + SampleInterval
          /\ keyframes[n].time > 0

\* C4 as stated: the offset emitted for the transition into segment k equals the
\* offset the mapper uses for segment k, for every k in 1..N-1.
C4_Original ==
    (Mapped /\ Faded /\ Len(segments) >= 2) =>
        /\ Len(xfade) = Len(segments) - 1
        /\ \A k \in 1..(Len(segments) - 1) : xfade[k] = offsets[k + 1]

\* C4 amended: the offset emitted for the transition into segment k is the offset
\* the mapper uses for segment k printed with 3 decimals: the two are equal when
\* that offset is a whole number of milliseconds and at most 0.0005 s apart otherwise.
C4_SamePlacementToMillisecond ==
    (Mapped /\ Faded /\ Len(segments) >= 2) =>
        /\ Len(xfade) = Len(segments) - 1
        /\ \A k \in 1..(Len(segments) - 1) :
              /\ xfade[k] % FormatQuantum = 0
              /\ 2 * Abs(xfade[k] - offsets[k + 1]) <= FormatQuantum
              /\ offsets[k + 1] % FormatQuantum = 0 => xfade[k] = offsets[k + 1]

C4_Witness ==
    /\ Mapped
    /\ Faded
    /\ Len(segments) = 3
    /\ fade_duration > 0
    /\ xfade[1] = offsets[2]
    /\ xfade[1] > 0
    /\ xfade[2] # offsets[3]

\* C5: the returned keyframes are non-decreasing in output time, and keyframes
\* with equal output time keep their input order (earlier segment first, within a
\* segment the earlier sample first); no keyframe is lost or added by the sort.
C5_SortedStable ==
    Mapped =>
        /\ Len(keyframes) = SumSeq([i \in 1..Len(segment_data) |-> Len(segment_data[i])])
        /\ \A m, n \in 1..Len(keyframes) :
              m < n =>
                /\ keyframes[m].time <= keyframes[n].time
                /\ keyframes[m].time = keyframes[n].time
                      => keyframes[m].x_norm < keyframes[n].x_norm

\* the tail of segment 0 and the head of segment 1 interleave, with a tie
C5_Witness ==
    /\ Mapped
    /\ \E m, n \in 1..Len(keyframes) :
          /\ m < n
          /\ keyframes[m].time = keyframes[n].time
          /\ keyframes[m].x_norm = XTag(0, 1)
          /\ keyframes[n].x_norm = XTag(1, 0)
    /\ \E m, n \in 1..Len(keyframes) :
          /\ m < n
          /\ keyframes[m].time < keyframes[n].time
          /\ keyframes[m].x_norm = XTag(1, 0)
          /\ keyframes[n].x_norm = XTag(0, 2)

----------------------------------------------------------------------------
(* Claims about the smoother (SpecSmoother) *)

Smoothed == "smooth" \in calls

Known(pos) == {i \in 1..Len(pos) : pos[i] # None}

\* the value gap filling gives position i of a list with a known value: its own,
\* else the nearest known one before it, else the first known one
FillTarget(pos, i) ==
    LET before == {j \in Known(pos) : j <= i}
    IN IF before # {}
       THEN pos[CHOOSE j \in before : \A h \in before : h <= j][1]
       ELSE pos[CHOOSE j \in Known(pos) : \A h \in Known(pos) : j <= h][1]

\* C7: a non-empty all-None list smooths to a list of the same length whose
\* every value is exactly 0.5.
C7_AllNoneGivesCenter ==
    (Smoothed /\ positions # <<>> /\ Known(positions) = {}) =>
        /\ Len(smoothed) = Len(positions)
        /\ \A i \in 1..Len(smoothed) : 2 * smoothed[i][1] = XDen

C7_Witness ==
    /\ Smoothed
    /\ Len(positions) >= 3
    /\ Known(positions) = {}
    /\ smoothed[3] = Some(Center)

\* C8: two consecutive smoothed outputs differ by at most max_speed; each output
\* is prev + alpha * (target - prev) when that step is within the bound and
\* prev +/- max_speed otherwise, target being the gap-filled input.
C8_StepBound ==
    Smoothed =>
        \A i \in 2..Len(smoothed) :
            LET prev == smoothed[i - 1][1]
                x == smoothed[i][1]
            IN /\ Abs(x - prev) <= max_speed
               /\ Known(positions) # {} =>
                    LET step == alpha.num * (FillTarget(positions, i) - prev)
                    IN IF Abs(step) <= max_speed * alpha.den
                       THEN (x - prev) * alpha.den = step
                       ELSE IF step > 0 THEN x = prev + max_speed
                       ELSE x = prev - max_speed

\* a clamped step right after a detection gap, and an unclamped non-zero step
C8_Witness ==
    /\ Smoothed
    /\ max_speed = DefaultMaxSpeed
    /\ alpha = [num |-> 3, den |-> AlphaDen]
    /\ Len(positions) = 4
    /\ positions[2] = None
    /\ positions[3] # None
    /\ smoothed[3][1] - smoothed[2][1] = max_speed
    /\ smoothed[4][1] < smoothed[3][1]
    /\ smoothed[3][1] - smoothed[4][1] < max_speed

\* C9: the result has exactly the length of the input and contains no None; an
\* empty input gives an empty result.
C9_SameLengthNoNone ==
    Smoothed =>
        /\ Len(smoothed) = Len(positions)
        /\ \A i \in 1..Len(smoothed) : smoothed[i] # None /\ Len(smoothed[i]) = 1
        /\ positions = <<>> => smoothed = <<>>

C9_Witness ==
    /\ Smoothed
    /\ Len(positions) = 4
    /\ positions[1] = None
    /\ positions[4] = None
    /\ Known(positions) # {}
    /\ Len(smoothed) = 4

----------------------------------------------------------------------------
(* Claims about the simplifier (SpecRdp) *)

Simplified == "rdp" \in calls

Retained == {simplified[n].idx : n \in 1..Len(simplified)}
Removed == (1..Len(points)) \ Retained

\* the retained input indexes nearest to i on each side
RetainedBefore(i) == CHOOSE j \in Retained : j < i /\ \A h \in Retained : h < i => h <= j
RetainedAfter(i) == CHOOSE j \in Retained : j > i /\ \A h \in Retained : h > i => j <= h

\* the square of the distance from p to the segment from a to b, as a fraction:
\* to the nearer end when p projects outside the segment, else to the line
SegmentDistSq(p, a, b) ==
    LET ux == b.t - a.t
        uy == b.x - a.x
        toA == (p.t - a.t) * (p.t - a.t) + (p.x - a.x) * (p.x - a.x)
        toB == (p.t - b.t) * (p.t - b.t) + (p.x - b.x) * (p.x - b.x)
        cross == ux * (p.x - a.x) - uy * (p.t - a.t)
    IN IF ux = 0 /\ uy = 0 THEN [num |-> toA, den |-> 1]
       ELSE IF (p.t - a.t) * ux + (p.x - a.x) * uy <= 0 THEN [num |-> toA, den |-> 1]
       ELSE IF (p.t - b.t) * ux + (p.x - b.x) * uy >= 0 THEN [num |-> toB, den |-> 1]
       ELSE [num |-> cross * cross, den |-> ux * ux + uy * uy]

WithinEpsilon(d) == d.num * epsilon.den * epsilon.den <= epsilon.num * epsilon.num * d.den

\* C10: every input point _rdp removes lies within epsilon (distance to the
\* segment) of the segment that joins its two nearest retained neighbours in
\* input order (which exist: both ends are retained).
C10_RemovedWithinEpsilon ==
    Simplified =>
        \A i \in Removed :
            /\ \E j \in Retained : j < i
            /\ \E j \in Retained : j > i
            /\ WithinEpsilon(SegmentDistSq(points[i], points[RetainedBefore(i)],
                                           points[RetainedAfter(i)]))

\* a split: one interior point kept, points removed on both sides of it, one of
\* them off the segment of its neighbours
C10_Witness ==
    /\ Simplified
    /\ Len(points) = 5
    /\ epsilon.num > 0
    /\ Retained = {1, 3, 5}
    /\ SegmentDistSq(points[2], points[1], points[3]).num > 0
    /\ SegmentDistSq(points[4], points[3], points[5]).num > 0

----------------------------------------------------------------------------
(* Claims about the sampling loop (SpecAnalysis) *)

\* the segment sampled last, when it gave frames: smoothed is its sample list
LastSampled == Len(segment_data)
SampledWithFrames == pc # "start" /\ LastSampled >= 1 /\ frames > 0

\* the sample indexes j whose local time j / sample_fps is within the segment
SamplesWithin(seg) ==
    {j \in 0..(Len(smoothed) - 1) : j * TicksPerSecond <= Duration(seg) * sample_fps}

MappingRan == "map" \in calls

\* C6: of a segment's smoothed samples exactly those with local time
\* j / sample_fps in [0, duration] are kept, sample j paired with source time
\* start + j / sample_fps, none later than the segment's end; each kept pair
\* becomes one keyframe, at its local time placed on the output timeline.
C6_SamplesWithinSegmentKept ==
    /\ SampledWithFrames =>
         LET seg == segments[LastSampled]
             data == segment_data[LastSampled]
         IN /\ Len(smoothed) = frames
            /\ Len(data) = Cardinality(SamplesWithin(seg))
            /\ \A j \in 1..Len(data) :
                  /\ (j - 1) \in SamplesWithin(seg)
                  /\ (data[j][1] - seg.start) * sample_fps = (j - 1) * TicksPerSecond
                  /\ data[j][1] <= seg.end
                  /\ data[j][2] = smoothed[j][1]
    /\ (pc # "start" /\ LastSampled >= 1 /\ frames = 0) => segment_data[LastSampled] = <<>>
    /\ MappingRan =>
         /\ Len(keyframes) = SumSeq([i \in 1..Len(segment_data) |-> Len(segment_data[i])])
         /\ \A i \in 1..Len(segment_data) : \A j \in 1..Len(segment_data[i]) :
              \E n \in 1..Len(keyframes) :
                 /\ keyframes[n].x_norm = segment_data[i][j][2]
                 /\ 2 * Abs(keyframes[n].time * speed.num
                            - (offsets[i] + (segment_data[i][j][1] - segments[i].start))
                              * speed.den)
                       <= RoundQuantum * speed.num

\* three frames of a 1.5 s segment sampled once a second: the third is dropped,
\* the two kept become keyframes
C6_Witness ==
    /\ result = "trajectory"
    /\ frames = 3
    /\ sample_fps = 1
    /\ Len(smoothed) = 3
    /\ Len(segment_data[LastSampled]) = 2
    /\ smoothed[1] # smoothed[2]
    /\ Len(keyframes) >= 2

----------------------------------------------------------------------------
(* Claims about the simplification of the mapped keyframes (SpecSimplify) *)

SimplifyRan == "simplify" \in calls
AllAtZero == \A i \in 1..Len(keyframes) : keyframes[i].time = 0
LargestTime ==
    CHOOSE t \in {keyframes[i].time : i \in 1..Len(keyframes)} :
        \A j \in 1..Len(keyframes) : keyframes[j].time <= t

\* the time the claim has the times divided by: the largest time, 1.0 when it is 0
Divisor == IF AllAtZero THEN TicksPerSecond ELSE LargestTime

\* how many grid steps are 1.0, read from the epsilon given to the reducer:
\* epsilon = 0.008 * GridScale
GridScale == (125 * epsilon.num) \div epsilon.den

SameProduct(a, b, c, d) == ~GreaterProduct(a, b, c, d) /\ ~GreaterProduct(c, d, a, b)

\* C11 as stated: when the largest output time of the mapped keyframes is 0,
\* the simplification is skipped and the keyframes are left as they are.
C11_Original ==
    (SimplifyRan /\ AllAtZero) => reduced = keyframes

\* C11: the times are divided by the largest output time, or by 1.0 when it is
\* 0, the positions are left as they are, the reducer runs on these points with
\* epsilon 0.008 in both cases, and every keyframe it keeps is returned with its
\* own time and position.
C11_NormalizedThenReduced ==
    SimplifyRan =>
        /\ (125 * epsilon.num) % epsilon.den = 0
        /\ Len(points) = Len(keyframes)
        /\ \A i \in 1..Len(keyframes) :
             /\ points[i].t * Divisor = GridScale * keyframes[i].time
             /\ SameProduct(points[i].x, XDen, GridScale, keyframes[i].x_norm)
             /\ points[i].idx = i
        /\ simplified = Rdp(points, epsilon)
        /\ Len(reduced) = Len(simplified)
        /\ \A j \in 1..Len(reduced) : reduced[j] = keyframes[simplified[j].idx]

\* all the keyframes are at time 0 and the reducer has dropped one of them
C11_Witness ==
    /\ SimplifyRan
    /\ AllAtZero
    /\ Len(keyframes) >= 3
    /\ Len(reduced) < Len(keyframes)

----------------------------------------------------------------------------
(* Claims about the crop expression (SpecExpr) *)

ExprBuilt == "expr" \in calls
Evaluated == ExprBuilt /\ frame # None

\* f, a whole number of 0.0001, is the nearest one to x
NearestTenThousandth(f, x) ==
    LET u == XDen \div 10000 IN 2 * Abs(f * u - x) <= u

\* 2 * (the greatest whole number v with 2 * v <= w)
EvenFloor(w) == 2 * (w \div 2)

\* C13: with no keyframe _build_crop_x_expr returns the static centred
\* expression (iw - crop_w)/2; with one keyframe it returns the clamped,
\* even-aligned value for that keyframe's x_norm (printed to four decimals),
\* in which the time t does not occur.
C13_SpecialCases ==
    ExprBuilt =>
        /\ Len(reduced) = 0 =>
             crop_x_expr.kind = "center" /\ crop_x_expr.crop_w = crop.w
        /\ Len(reduced) = 1 =>
             /\ crop_x_expr.kind = "clamped"
             /\ crop_x_expr.crop_w = crop.w
             /\ crop_x_expr.branches = <<>>
             /\ NearestTenThousandth(crop_x_expr.f, reduced[1].x_norm)
             /\ frame # None =>
                  frame.x = EvenFloor(Min(Max((crop_x_expr.f * frame.iw) \div 10000
                                               - crop_x_expr.half, 0),
                                          frame.iw - crop.w))

\* one keyframe, and a frame whose crop is not at the left edge
C13_Witness ==
    /\ Evaluated
    /\ Len(reduced) = 1
    /\ frame.x > 0

\* the whole part of clamp(face_x * iw - crop_w/2, 0, iw - crop_w), where
\* face_x is the value the expression gives to the factor of iw
ClaimedClamp ==
    LET face_x == FaceX(crop_x_expr, frame.t)
        hi == frame.iw - crop.w
    IN IF face_x.num < 0 THEN 0
       ELSE IF face_x.num >= face_x.den THEN hi
       ELSE Min(Max((WholePart(face_x, 2 * frame.iw) - crop.w) \div 2, 0), hi)

\* C14: for at least one keyframe, any crop_w, any source width of at least
\* crop_w and any t >= 0, the value of the expression is an even whole number
\* x with 0 <= x <= source_width - crop_w, and it is
\* clamp(face_x(t) * source_width - crop_w/2, 0, source_width - crop_w) rounded
\* down to an even number.
C14_EvenClampedCrop ==
    (Evaluated /\ Len(reduced) >= 1) =>
        /\ frame.x % 2 = 0
        /\ 0 <= frame.x
        /\ frame.x <= frame.iw - crop.w
        /\ frame.x = EvenFloor(ClaimedClamp)

SameFraction(f, x) ==
    /\ f.num >= 0
    /\ SameProduct(f.num, XDen, x, f.den)

\* C15: for at least two keyframes, face_x(t) is the first keyframe's x_norm
\* at every t before the first keyframe's time and the last keyframe's x_norm
\* at every t at or after the last keyframe's time.
C15_ConstantOutsideRange ==
    (Evaluated /\ Len(reduced) >= 2) =>
        /\ frame.t < reduced[1].time =>
             SameFraction(FaceX(crop_x_expr, frame.t), reduced[1].x_norm)
        /\ frame.t >= reduced[Len(reduced)].time =>
             SameFraction(FaceX(crop_x_expr, frame.t), reduced[Len(reduced)].x_norm)

\* x_i + (x_{i+1} - x_i) * (t - t_i) / (t_{i+1} - t_i)
Interpolated(i, t) ==
    FracAdd(Fraction(reduced[i].x_norm, XDen),
            FracMul(Fraction(reduced[i + 1].x_norm - reduced[i].x_norm, XDen),
                    Fraction(t - reduced[i].time, reduced[i + 1].time - reduced[i].time)))

Within(i, t) ==
    /\ reduced[i].time < reduced[i + 1].time
    /\ reduced[i].time <= t
    /\ t < reduced[i + 1].time

\* the keyframe is printed as it is: its time is a whole number of
\* milliseconds and its position a whole number of 0.0001
PrintedExactly(kf) ==
    /\ kf.time % (TicksPerSecond \div 1000) = 0
    /\ kf.x_norm % (XDen \div 10000) = 0

\* the example of the claim: keyframes (0.0, 0.3) and (2.0, 0.7), crop_w 400,
\* source width 1080, t = 1.0
Example ==
    /\ reduced = <<[time |-> 0, x_norm |-> (3 * XDen) \div 10],
                   [time |-> 2 * TicksPerSecond, x_norm |-> (7 * XDen) \div 10]>>
    /\ crop.w = 400
    /\ frame.iw = 1080
    /\ frame.t = TicksPerSecond

\* C16 as stated: between two consecutive keyframes the expression gives the
\* linear interpolation of their positions, however small the gap is.
C16_Original ==
    Evaluated =>
        \A i \in 1..(Len(reduced) - 1) :
            Within(i, frame.t) => FaceX(crop_x_expr, frame.t) = Interpolated(i, frame.t)

\* C16: between two consecutive keyframes that are at least a millisecond
\* apart and are printed exactly, the expression gives the linear
\* interpolation of their positions; the example gives face_x = 0.5 and x = 340.
C16_InterpolatesFromAMillisecond ==
    Evaluated =>
        /\ \A i \in 1..(Len(reduced) - 1) :
             (/\ Within(i, frame.t)
              /\ reduced[i + 1].time - reduced[i].time >= TicksPerSecond \div 1000
              /\ PrintedExactly(reduced[i])
              /\ PrintedExactly(reduced[i + 1]))
             => FaceX(crop_x_expr, frame.t) = Interpolated(i, frame.t)
        /\ Example =>
             /\ FaceX(crop_x_expr, frame.t) = [num |-> 1, den |-> 2]
             /\ frame.x = 340

\* the example has been evaluated
C16_Witness ==
    /\ Evaluated
    /\ Example
    /\ frame.x = 340

----------------------------------------------------------------------------
(* Claims about the outcomes of the analysis (SpecAnalysis) *)

Skipped ==
    /\ pc = "done"
    /\ result = "None"
    /\ segment_data = <<>>
    /\ frames = 0
    /\ total_frames = 0

LoopCompleted == pc = "done" /\ Len(segment_data) = Len(segments)

RawDuration == SumSeq([i \in 1..Len(segments) |-> Duration(segments[i])])

\* the end of the last segment on the output timeline: its offset and its
\* duration, divided by the speed
ComposedUnder(limit) ==
    LET n == Len(segments)
        before == SumSeq([i \in 1..(n - 1) |-> Duration(segments[i])])
        offset == Max(0, before - (n - 1) * fade_duration)
    IN (offset + Duration(segments[n])) * speed.den < limit * speed.num

\* src_w * crop_h / src_h < 1.1 * crop_w
Narrow == 10 * source.w * crop.h < 11 * crop.w * source.h

\* C12: whenever fewer than 2 keyframes remain after the mapping to the output
\* timeline, the analysis returns None and neither the simplifier nor the
\* expression synthesizer runs.
C12_TooFewKeyframesNoTrajectory ==
    (MappingRan /\ Len(keyframes) < 2) =>
        /\ pc = "done"
        /\ result = "None"
        /\ "rdp" \notin calls
        /\ "expr" \notin calls
        /\ points = <<>>
        /\ simplified = <<>>
        /\ reduced = <<>>
        /\ crop_x_expr = None

\* the mapping gave one keyframe and the analysis returned None
C12_Witness ==
    /\ MappingRan
    /\ Len(keyframes) = 1
    /\ result = "None"

\* C17 as stated: tracking is skipped, without a frame sampled, whenever the
\* composed duration of the output, after the crossfade overlaps and the speed,
\* is less than 3 seconds.
C17_Original ==
    (pc # "start" /\ ComposedUnder(3 * TicksPerSecond)) => Skipped

\* C17: tracking is skipped, without a frame sampled, whenever the sum of the
\* durations of the segments, before crossfade overlaps and speed, is less than
\* 3 seconds.
C17_SkippedUnderThreeSecondsOfSource ==
    (pc # "start" /\ RawDuration < 3 * TicksPerSecond) => Skipped

\* a wide enough source with the detector available, skipped for its duration
C17_Witness ==
    /\ Skipped
    /\ available
    /\ raised = None
    /\ ~Narrow
    /\ RawDuration < 3 * TicksPerSecond

\* C18: tracking is skipped before any frame is extracted whenever the detector
\* is unavailable or src_w * crop_h / src_h < 1.1 * crop_w, and the call returns
\* None: with the detector unavailable nothing is raised at all.
C18_SkippedWithoutDetectorOrSlack ==
    (pc # "start" /\ (~available \/ Narrow)) =>
        /\ Skipped
        /\ ~available => raised = None

\* a long enough job with the detector available, skipped for its width
C18_Witness ==
    /\ Skipped
    /\ available
    /\ raised = None
    /\ Narrow
    /\ RawDuration >= 3 * TicksPerSecond

\* C19: when every segment has been sampled and no frame was sampled at all, or
\* fewer than 30% of the sampled frames have a face, the analysis returns None
\* without mapping anything and without raising (no division by zero).
C19_LowDetectionNoTrajectory ==
    (LoopCompleted /\ (total_frames = 0 \/ 10 * detected_frames < 3 * total_frames)) =>
        /\ result = "None"
        /\ raised = None
        /\ ~MappingRan
        /\ keyframes = <<>>

\* some faces, in under 30% of the frames
C19_Witness ==
    /\ LoopCompleted
    /\ detected_frames > 0
    /\ 10 * detected_frames < 3 * total_frames
    /\ result = "None"

\* C20 as stated: a failure of the extraction or of the detection in one
\* segment does not abort the analysis of the remaining segments.
C20_Original ==
    (pc = "done" /\ raised = Some("sampling")) => Len(segment_data) = Len(segments)

\* C20: a segment whose extraction gives no frame is degraded to an empty
\* sample list and the samples of every other segment are still mapped,
\* simplified and returned; an exception raised by the extraction or the
\* detection of a segment ends the analysis there, and the call returns None.
C20_EmptyDegradesRaisedAborts ==
    /\ raised = Some("sampling") =>
         /\ pc = "done"
         /\ result = "None"
         /\ ~MappingRan
         /\ Len(segment_data) < Len(segments)
    /\ result = "trajectory" =>
         /\ raised = None
         /\ Len(segment_data) = Len(segments)
         /\ Len(keyframes) = SumSeq([i \in 1..Len(segment_data) |-> Len(segment_data[i])])
         /\ Len(reduced) >= 2
         /\ \A j \in 1..Len(reduced) : \E n \in 1..Len(keyframes) : reduced[j] = keyframes[n]
         /\ crop_x_expr # None

\* a trajectory was returned though a segment long enough to be sampled gave
\* no frame
C20_Witness ==
    /\ result = "trajectory"
    /\ \E k \in 1..Len(segments) :
         /\ segment_data[k] = <<>>
         /\ Duration(segments[k]) >= TicksPerSecond

\* C21: analyze_face_positions never lets an exception reach its caller:
\* whichever step raised (the probe, the sampling of a segment, the mapping,
\* the simplification, the expression), the call is over, it returned None,
\* and no expression or reduced keyframe list came out of it.
C21_ExceptionsBecomeNone ==
    /\ result \in {"pending", "None", "trajectory"}
    /\ raised # None =>
         /\ pc = "done"
         /\ result = "None"
         /\ reduced = <<>>
         /\ crop_x_expr = None

\* the simplification raised after every segment was sampled and mapped
C21_Witness ==
    /\ raised = Some("simplification")
    /\ LoopCompleted
    /\ Len(keyframes) >= 2
    /\ result = "None"

----------------------------------------------------------------------------
(* Claims about the detection (SpecDetect) *)

Detected == "detect" \in calls

BoxArea(i) ==
    (IF detections[i].width > 0 THEN detections[i].width ELSE 0)
    * (IF detections[i].height > 0 THEN detections[i].height ELSE 0)

\* the first of the detections of largest area
FirstLargest ==
    CHOOSE i \in 1..Len(detections) :
        /\ \A j \in 1..Len(detections) : BoxArea(j) <= BoxArea(i)
        /\ \A j \in 1..(i - 1) : BoxArea(j) < BoxArea(i)

\* xmin + width / 2 of detection i, clamped to [0, 1], in 1/XDen
ClampedCenter(i) ==
    LET twentieths == 2 * detections[i].xmin + detections[i].width
        c == (twentieths * XDen) \div 20
    IN IF c < 0 THEN 0 ELSE IF c > XDen THEN XDen ELSE c

\* C22: for every frame with at least one detection, the position emitted is
\* the clamped horizontal centre of the detection of largest area, the first
\* one among equals, also when every box has zero area.
C22_LargestFirstCenter ==
    (Detected /\ detections # <<>>) =>
        positions[Len(positions)] = Some(ClampedCenter(FirstLargest))

----------------------------------------------------------------------------
(* Claims about the speed given to the mapping (SpecSpeed) *)

\* C23: a call with a non-positive speed ends in an error and never yields
\* keyframes computed from that speed.
C23_NonPositiveSpeedRejected ==
    (Mapped /\ speed.num <= 0) =>
        /\ raised # None
        /\ keyframes = <<>>

----------------------------------------------------------------------------
(* Claims about the sample collection (SpecAnalysis) *)

\* the placement of the segment at sequence index i
EntryOffset(i) == Max(0, DurationsBefore(i - 1) - (i - 1) * fade_duration)

\* C24: the sample collection has one entry per segment sampled so far, in
\* segment order, entry i holding only source times of segment i; when the
\* mapping runs there is exactly one entry per segment, and every sample of
\* entry i has become a keyframe placed with the start and offset of segment i.
C24_OneEntryPerSegmentInOrder ==
    /\ Len(segment_data) <= Len(segments)
    /\ \A i \in 1..Len(segment_data) : \A j \in 1..Len(segment_data[i]) :
         /\ segments[i].start <= segment_data[i][j][1]
         /\ segment_data[i][j][1] <= segments[i].end
    /\ MappingRan =>
         /\ Len(segment_data) = Len(segments)
         /\ Len(keyframes) = SumSeq([i \in 1..Len(segment_data) |-> Len(segment_data[i])])
         /\ \A i \in 1..Len(segment_data) : \A j \in 1..Len(segment_data[i]) :
              \E n \in 1..Len(keyframes) :
                 /\ keyframes[n].x_norm = segment_data[i][j][2]
                 /\ 2 * Abs(keyframes[n].time * speed.num
                            - (EntryOffset(i) + (segment_data[i][j][1] - segments[i].start))
                              * speed.den)
                       <= RoundQuantum * speed.num

\* the first of two segments gave no frame, the second one did, and its
\* samples were mapped
C24_Witness ==
    /\ MappingRan
    /\ Len(segments) = 2
    /\ Duration(segments[1]) >= MinTotalDuration
    /\ segment_data[1] = <<>>
    /\ Len(segment_data[2]) >= 2
    /\ Len(keyframes) = Len(segment_data[2])

----------------------------------------------------------------------------
(* Claims about the gap filling and the range of the smoother (SpecSmoother) *)

\* alpha = 1 with a step bound of the whole width: each output is its target
Unsmoothed == alpha.num = alpha.den /\ max_speed = XDen

\* C25: in a list with a known value, gap filling gives every None after a
\* known value the nearest known value before it and every None before the
\* first known value the first known value, and leaves known values alone; the
\* first smoothed output is the first filled value.
C25_GapFilling ==
    (Smoothed /\ Known(positions) # {}) =>
        /\ Len(Filled(positions)) = Len(positions)
        /\ \A i \in 1..Len(positions) :
             /\ Filled(positions)[i] = Some(FillTarget(positions, i))
             /\ positions[i] # None => Filled(positions)[i] = positions[i]
             /\ Unsmoothed => smoothed[i] = Some(FillTarget(positions, i))
        /\ smoothed[1] = Some(FillTarget(positions, 1))

\* a leading gap, two different known values and a trailing gap, not smoothed
C25_Witness ==
    /\ Smoothed
    /\ Unsmoothed
    /\ Len(positions) = 4
    /\ positions[1] = None
    /\ positions[2] # None
    /\ positions[3] # None
    /\ positions[2] # positions[3]
    /\ positions[4] = None
    /\ smoothed[1] = positions[2]
    /\ smoothed[4] = positions[3]

\* the least and the greatest known input value
LeastKnown == CHOOSE v \in {positions[i][1] : i \in Known(positions)} :
                  \A i \in Known(positions) : v <= positions[i][1]
GreatestKnown == CHOOSE v \in {positions[i][1] : i \in Known(positions)} :
                     \A i \in Known(positions) : positions[i][1] <= v

\* C28: for 0 <= alpha <= 1 and max_speed >= 0 every smoothed output lies
\* between the least and the greatest known input value, so inputs within
\* [0, 1] give outputs within [0, 1].
C28_WithinKnownRange ==
    (Smoothed /\ Known(positions) # {}
       /\ 0 <= alpha.num /\ alpha.num <= alpha.den /\ max_speed >= 0) =>
        \A i \in 1..Len(smoothed) :
            /\ LeastKnown <= smoothed[i][1]
            /\ smoothed[i][1] <= GreatestKnown
            /\ 0 <= smoothed[i][1]
            /\ smoothed[i][1] <= XDen

\* a clamped step down from the right edge and a step strictly inside the range
C28_Witness ==
    /\ Smoothed
    /\ alpha = [num |-> 3, den |-> AlphaDen]
    /\ max_speed = DefaultMaxSpeed
    /\ Len(positions) >= 3
    /\ positions[1] = Some(XDen)
    /\ positions[2] = Some(0)
    /\ smoothed[2][1] = XDen - max_speed
    /\ LeastKnown < smoothed[3][1]
    /\ smoothed[3][1] < smoothed[2][1]

----------------------------------------------------------------------------
(* Claims about the result of the simplifier (SpecRdp) *)

Interior == 2..(Len(points) - 1)

\* the square of the distance of input point i to the segment from the first
\* to the last input point
EndsDistSq(i) == SegmentDistSq(points[i], points[1], points[Len(points)])

Farther(d, e) == d.num * e.den > e.num * d.den

\* the first of the interior points farthest from that segment
FirstFarthest ==
    CHOOSE i \in Interior :
        /\ \A j \in Interior : ~Farther(EndsDistSq(j), EndsDistSq(i))
        /\ \A j \in Interior : j < i => Farther(EndsDistSq(i), EndsDistSq(j))

SplitNeeded == Len(points) >= 3 /\ ~WithinEpsilon(EndsDistSq(FirstFarthest))

\* C26: the result of _rdp is a subsequence of the input in input order that
\* holds the first and the last input point; an input of at most 2 points comes
\* back unchanged; when the largest distance of an interior point exceeds
\* epsilon, the (first) farthest interior point is retained.
C26_SubsequenceWithEnds ==
    Simplified =>
        /\ \A n \in 1..Len(simplified) :
             /\ simplified[n].idx \in 1..Len(points)
             /\ simplified[n] = points[simplified[n].idx]
        /\ \A n \in 1..(Len(simplified) - 1) : simplified[n].idx < simplified[n + 1].idx
        /\ Len(points) >= 1 =>
             /\ simplified[1].idx = 1
             /\ simplified[Len(simplified)].idx = Len(points)
        /\ Len(points) <= 2 => simplified = points
        /\ SplitNeeded => FirstFarthest \in Retained

\* five points, the fourth the only one kept between the ends
C26_Witness ==
    /\ Simplified
    /\ Len(points) = 5
    /\ epsilon.num > 0
    /\ SplitNeeded
    /\ FirstFarthest = 4
    /\ Retained = {1, 4, 5}

----------------------------------------------------------------------------
(* Claims about the recursion of the simplifier (SpecRdpCalls) *)

Returned == stack = <<>>

\* the most calls a list of n points can take: one for each node of a binary
\* tree whose leaves each cover a gap between neighbouring points
MostCalls(n) == IF n <= 2 THEN 1 ELSE 2 * n - 3

\* C27: _rdp terminates when epsilon >= 0: a call recurses only when the
\* largest interior distance is strictly greater than epsilon, the split index
\* is then an interior index and both sublists are shorter than the list, so a
\* list of n points takes at most 2n - 3 calls; a call that is due always runs.
C27_Terminates ==
    /\ rdp_calls <= MostCalls(Len(points))
    /\ ~Returned => rdp_calls < MaxRdpCalls
    /\ \A k \in 1..Len(stack) : rdp_calls > 0 => Len(stack[k]) >= 2
    /\ (last_call # None /\ last_call[1].split # 0) =>
         LET pts == last_call[1].pts
             i == last_call[1].split
         IN /\ Len(pts) >= 3
            /\ 1 < i
            /\ i < Len(pts)
            /\ ~WithinEpsilon(SegmentDistSq(pts[i], pts[1], pts[Len(pts)]))
            /\ Len(stack) >= 2
            /\ Len(stack[1]) = i
            /\ Len(stack[2]) = Len(pts) - i + 1
            /\ Len(stack[1]) < Len(pts)
            /\ Len(stack[2]) < Len(pts)
    /\ Returned => simplified = Rdp(points, epsilon)

\* five points needed seven calls and the last one has returned
C27_Witness ==
    /\ Returned
    /\ Len(points) = 5
    /\ rdp_calls = 7
    /\ Len(simplified) = 5

----------------------------------------------------------------------------
(* Claims about the divisors of the crop expression (SpecExpr) *)

Millisecond == TicksPerSecond \div 1000

\* the pairs of consecutive keyframes at least 0.001 s apart
FarEnough ==
    {i \in 1..(Len(reduced) - 1) : reduced[i + 1].time - reduced[i].time >= Millisecond}

\* C29: the expression never divides by zero: there is one interpolation
\* branch for each pair of consecutive keyframes at least 0.001 s apart and none
\* for the other pairs, every divisor as printed with three decimals is at
\* least 0.001, and when no pair qualifies the single-value expression of the
\* first keyframe is returned.
C29_NoZeroDivisor ==
    (ExprBuilt /\ Len(reduced) >= 2) =>
        /\ crop_x_expr.kind = "clamped"
        /\ Len(crop_x_expr.branches) = Cardinality(FarEnough)
        /\ \A k \in 1..Len(crop_x_expr.branches) :
             /\ crop_x_expr.branches[k].dt >= Millisecond
             /\ crop_x_expr.branches[k].dt % Millisecond = 0
        /\ FarEnough = {} => NearestTenThousandth(crop_x_expr.f, reduced[1].x_norm)

\* of three keyframes the first two are 0.0004 s apart and get no branch, the
\* last two are 0.0014 s apart and get one, whose divisor is printed 0.001
C29_Witness ==
    /\ Evaluated
    /\ Len(reduced) = 3
    /\ FarEnough = {2}
    /\ Len(crop_x_expr.branches) = 1
    /\ crop_x_expr.branches[1].dt = Millisecond
    /\ reduced[3].time - reduced[2].time > Millisecond

----------------------------------------------------------------------------
(* Claims about the delivery of the webhook (SpecWebhook) *)

LastPost == posts[Len(posts)]
Success(r) == ~r.error /\ r.status < 300
Transient(r) == r.error \/ r.status = 429 \/ (r.status >= 500 /\ r.status <= 599)
Exhausted == Len(posts) = max_retries + 1 /\ Transient(LastPost)

\* C30: send_webhook makes at most max_retries + 1 POSTs; it returns after
\* the first response with a status under 300; a POST is followed by another
\* only when it met a network error, a 5xx or a 429, and then after a sleep of
\* base_delay * 2^attempt; any other status raises at once; when the last of
\* the max_retries + 1 attempts fails it raises without a sleep after it.
C30_BoundedRetries ==
    (delivery # "idle") =>
        /\ Len(posts) <= max_retries + 1
        /\ \A k \in 1..(Len(posts) - 1) : Transient(posts[k])
        /\ Len(delays) <= max_retries
        /\ \A k \in 1..Len(delays) : delays[k] = base_delay * Pow(2, k - 1)
        /\ delivery = "post" => Len(delays) = Len(posts) /\ Len(posts) <= max_retries
        /\ delivery = "sleep" =>
             /\ Len(delays) = Len(posts) - 1
             /\ Transient(LastPost)
             /\ Len(posts) <= max_retries
        /\ delivery = "returned" =>
             /\ posts # <<>>
             /\ Success(LastPost)
             /\ Len(delays) = Len(posts) - 1
        /\ delivery = "raised" =>
             /\ posts # <<>>
             /\ ~Success(LastPost)
             /\ ~Transient(LastPost) \/ Exhausted
             /\ Len(delays) = Len(posts) - 1

\* delivered at the third and last attempt, after a network error and a 429
C30_Witness ==
    /\ delivery = "returned"
    /\ max_retries = 2
    /\ Len(posts) = 3
    /\ posts[1].error
    /\ posts[2] = [error |-> FALSE, status |-> 429]
    /\ posts[3] = [error |-> FALSE, status |-> 200]
    /\ delays = <<base_delay, 2 * base_delay>>

====
